---- MODULE Spec2Model ----
(***************************************************************************)
(* A model of the investment_copilot backend: the background data sync     *)
(* scheduler (tasks/data_sync.py), driven by the application lifespan      *)
(* (main.py), and the cache-first asset services it refreshes              *)
(* (service/*.py over infrastructure/cache/redis_cache.py and              *)
(* infrastructure/db/repository/base.py).                                  *)
(*                                                                         *)
(* The scheduler runs on one asyncio event loop.  A task runs from one     *)
(* suspension point to the next without interruption; a suspension point   *)
(* is an await that really yields: asyncio.sleep and the SQLAlchemy async  *)
(* session.  The provider clients (akshare, requests) are synchronous      *)
(* functions called without an executor, and RedisCache wraps the          *)
(* synchronous redis client in `async def` methods that never yield.       *)
(***************************************************************************)
EXTENDS Integers, Sequences, FiniteSets, TLC

(***************************************************************************)
(* Bounds of the model.                                                    *)
(***************************************************************************)
\* how many times start() may spawn its six loops in one behaviour
MaxSpawns == 2
\* how many of the nine (market, index code) pairs the market loop walks
MaxIndices == 2
\* how many of the 45 (market, code, days) history windows the warm-up walks
MaxHist == 1
\* how many watchlist users the watchlist loop walks
MaxUsers == 1

\* how many snapshots the upstream serves
MaxVersions == 2

\* the clock: its step and how far it runs, in seconds
ClockStep == 5

MaxClock == 150

\* how many resumptions of loops that are neither cancelled nor about to
\* leave a stopped scheduler are followed under arbitrary API use
MaxApiSteps == 2

\* how many watchlist rows are inserted in one behaviour
MaxRows == 2

\* the quote times a table holds, 0..MaxTime
MaxTime == 2
\* the widths of a time bucket, 1..MaxWidth
MaxWidth == 2

\* how many add_message calls one session sees
MaxAdds == 22
\* how many of them meet a failing Redis operation
MaxFaults == 2

\* how many chat() turns one conversation has
MaxTurns == 2
\* how many tool calls one LLM response asks for
MaxToolCalls == 1

(***************************************************************************)
(* The six loops start() spawns, in create_task order.                     *)
(***************************************************************************)
CatSeq == <<"market", "gold", "fund", "futures", "watchlist", "etf">>

Cats == {CatSeq[k] : k \in 1..Len(CatSeq)}

SimpleCats == {"gold", "fund", "futures"}

TaskIds == 1..(Len(CatSeq) * MaxSpawns)

\* who calls start() and stop(): the application lifespan, or two
\* arbitrary coroutines using the DataSyncTask API
ApiCallers == {"a", "b"}

Callers == {"lifespan"} \cup ApiCallers

VARIABLES
    _running,   \* DataSyncTask._running
    _tasks,     \* DataSyncTask._tasks: the task ids the list holds
    task,       \* every asyncio.Task created so far, by id
    thread,     \* 0, or the task that occupies the event loop thread in a
                \* synchronous provider call
    call,       \* per caller: where it is in start()/stop()
    app,        \* where lifespan is: "startup", "serving" or "down"
    lateIO,     \* I/O issued by a task after task.cancel() was called on it
    caught,     \* the loop whose handler logged an exception in the last step
    returned,   \* the start()/stop() call that returned in the last step
    left,       \* the point at which a task ended in the last step
    steps,      \* the resumptions counted against MaxApiSteps
    svc,        \* the asset service whose get_realtime method is followed
    cache,      \* the Redis entry under that method's cache key
    store,      \* the rows of that service's time-series table
    calls,      \* per caller of the method: where its call is
    filled,     \* the list the cache key was last filled from
    ret,        \* the call that returned in the last step
    loop,       \* the sync loop whose cache key is followed over time
    now,        \* the clock, in seconds
    wake,       \* when the loop's interval sleep ends
    expires,    \* when the entry the loop last wrote expires
    refreshed,  \* the loop has written the key at least once
    read,       \* what a reader of the key found in the last step
    watchlist,  \* the rows of the watchlist tables
    views,      \* the cached watchlist views, by key
    inflight,   \* the watchlist service calls in flight
    done,       \* the watchlist service call that returned in the last step
    serial,     \* the next autoincrement id of the watchlist tables
    memory,     \* ConversationMemory: the stored history of the session
    messages,   \* the local message list of chat()
    turn,       \* where the chat() call is
    reply,      \* what chat() returned in the last step
    turns,      \* the chat() calls made
    long_memory, \* LongTermMemory: the agent_memories rows of the user
    wallclock,  \* the datetime.now() the trading-hours gate reads
    gate,       \* whether the gate was asked, and its answer
    table,      \* the rows of one time-series table (stock_quotes)
    repo,       \* the TimeSeriesRepository call that returned in the last step
    mem         \* the add_message calls made on the session's memory

schedVars == <<_running, _tasks, task, thread, call, app, lateIO, caught, returned,
               left, steps>>

svcVars == <<svc, cache, store, calls, filled, ret>>

timedVars == <<loop, now, wake, expires, refreshed, read>>

wlVars == <<watchlist, views, inflight, done, serial>>

agentVars == <<memory, messages, turn, reply, turns, long_memory>>

gateVars == <<wallclock, gate>>

repoVars == <<table, repo>>

memVars == <<mem>>

extVars == <<wlVars, agentVars, gateVars, repoVars, memVars>>

vars == <<schedVars, svcVars, timedVars, extVars>>

\* a task record: cat, the loop it runs; pc, the point it is suspended (or
\* blocked) at; i, the index of its inner for loop; once, its one-time
\* flag (history_synced, etf_list_synced/otc_list_synced); must_cancel, a
\* CancelledError is to be thrown into it at its next step; cancel_called,
\* task.cancel() was called on it; exit, how it ended; hist, how many
\* times it has called _sync_market_history
NoTask == [cat |-> "none", pc |-> "none", i |-> 0, once |-> FALSE,
           must_cancel |-> FALSE, cancel_called |-> FALSE, exit |-> "none",
           hist |-> 0]

\* asyncio.create_task(coro): the coroutine has not run yet; its locals
\* (history_synced, etf_list_synced, otc_list_synced) start False
NewTask(c) == [cat |-> c, pc |-> "new", i |-> 0, once |-> FALSE,
               must_cancel |-> FALSE, cancel_called |-> FALSE, exit |-> "none",
               hist |-> 0]

Alive(t) == task[t].pc \notin {"none", "done"}

\* pcs at which a task occupies the thread inside a synchronous provider call
BlockedPcs == {"fetch", "hfetch", "fetch2", "fetch3"}

\* pcs at which a task is suspended in asyncio.sleep
SleepPcs == {"sleep", "pace", "hpace"}

\* pcs at which a task is suspended in a database await
AwaitPcs == {"upsert", "users", "rows", "rows2"}

(***************************************************************************)
(* try/except.  asyncio.CancelledError derives from BaseException, so      *)
(* `except Exception` lets it through.                                     *)
(***************************************************************************)
\* a loop whose refresh stood in no try block
LoopHandlesNothing(exc) == FALSE

\* the loops' `except Exception as e: logger.warning(...)`
LoopHandles(exc) == exc = "Exception"

\* a handler written `except BaseException`, which also catches a
\* cancellation
ServiceHandlesBaseException(exc) == TRUE

\* a service method with no try block around save_quotes
ServiceHandlesNothing(exc) == FALSE

\* the services' `except Exception as e: logger.warning(...)` around
\* save_quotes and around the watchlist syncs
ServiceHandles(exc) == exc = "Exception"

\* where a step of a task leads: the next point, the loop index, the
\* one-time flag, and the I/O (provider fetch, store upsert, cache write)
\* issued on the way
Goto(p, n, o, ops) == [pc |-> p, i |-> n, once |-> o, io |-> ops,
                       exit |-> "none", logged |-> FALSE]

\* the coroutine returns or an exception leaves it: the task is done
Exit(why) == [pc |-> "done", i |-> 0, once |-> FALSE, io |-> {},
              exit |-> why, logged |-> FALSE]

\* one enclosing try: whether its except clause catches, whether it is a
\* loop's own handler, and where the code goes on after it
Handler(catches, ofLoop, to) == [catches |-> catches, ofLoop |-> ofLoop, to |-> to]

\* exc is raised at a point enclosed by `handlers` (innermost first): the
\* first that catches goes on; with none the exception ends the task
Unwind(handlers, exc) ==
    LET hit == {k \in 1..Len(handlers) : handlers[k].catches}
        first == CHOOSE k \in hit : \A m \in hit : k <= m
    IN IF hit = {}
       THEN Exit(IF exc = "CancelledError" THEN "cancelled" ELSE "exception")
       ELSE [handlers[first].to EXCEPT !.logged = handlers[first].ofLoop]

\* what a raise or a delivered cancellation is, as an exception class
ExcOf(ev) == IF ev = "cancel" THEN "CancelledError" ELSE "Exception"

(***************************************************************************)
(* The loops.  Each operator gives, for a task record r resumed with event *)
(* ev, where the coroutine is when it next suspends or blocks.  ev is      *)
(* "timer" (a sleep ended), "ok" / "empty" / "raise" (what an awaited or   *)
(* blocking call delivered) or "cancel" (CancelledError thrown in at the   *)
(* suspension point).  run is self._running as the step reads it; trading  *)
(* is what _is_trading_time() answers.                                     *)
(***************************************************************************)
\* the loop's own handler, after which the loop sleeps its interval
LoopHandler(exc, r) == Handler(LoopHandles(exc), TRUE, Goto("sleep", 0, r.once, {}))

\* `while self._running:` as read on entry and after the interval sleep; a
\* cancellation delivered here meets no try block
LoopHead(r, ev, run, first) ==
    IF ev = "cancel" THEN Exit("cancelled")
    ELSE IF ~run THEN Exit("returned")
    ELSE first

\* _sync_gold_data, _sync_fund_data, _sync_futures_data over
\* get_realtime_prices / get_realtime_navs / get_realtime_quotes
SimpleLoop(r, ev, run) ==
    CASE r.pc \in {"new", "sleep"} ->
           LoopHead(r, ev, run, Goto("fetch", 0, FALSE, {"fetch"}))
      [] r.pc = "fetch" ->
           \* data = self.client.get_..._realtime(); if data: save_quotes
           IF ev = "ok" THEN Goto("upsert", 0, FALSE, {"upsert"})
           ELSE IF ev = "empty" THEN Goto("sleep", 0, FALSE, {})
           ELSE Unwind(<<LoopHandler(ExcOf(ev), r)>>, ExcOf(ev))
      [] r.pc = "upsert" ->
           \* try: await save_quotes(data) except Exception: log
           \* then _set_to_cache(cache_key, data, CACHE_TTL_REALTIME)
           IF ev = "ok" THEN Goto("sleep", 0, FALSE, {"cache"})
           ELSE Unwind(<<Handler(ServiceHandles(ExcOf(ev)), FALSE,
                                 Goto("sleep", 0, FALSE, {"cache"})),
                         LoopHandler(ExcOf(ev), r)>>, ExcOf(ev))

\* a warm-up that does not set its flag
HistorySyncedForgotten == FALSE

\* history_synced = True, after _sync_market_history has returned
HistorySynced == TRUE

\* _sync_market_data with _sync_market_history
MarketLoop(r, ev, run) ==
    LET inner(to) == Handler(LoopHandles(ExcOf(ev)), TRUE, to)
    IN
    CASE r.pc \in {"new", "sleep"} ->
           LoopHead(r, ev, run, Goto("fetch", 1, r.once, {"fetch"}))
      [] r.pc = "fetch" ->
           \* get_market_data(use_cache=False): client call, cache write
           IF ev = "ok" THEN Goto("pace", r.i, r.once, {"cache"})
           ELSE Unwind(<<inner(Goto("pace", r.i, r.once, {})),
                         LoopHandler(ExcOf(ev), r)>>, ExcOf(ev))
      [] r.pc = "pace" ->
           \* await asyncio.sleep(1), inside the outer try only
           IF ev = "cancel" THEN Unwind(<<LoopHandler(ExcOf(ev), r)>>, ExcOf(ev))
           ELSE IF r.i < MaxIndices THEN Goto("fetch", r.i + 1, r.once, {"fetch"})
           ELSE IF ~r.once THEN Goto("hfetch", 1, r.once, {"fetch"})
           ELSE Goto("sleep", 0, r.once, {})
      [] r.pc = "hfetch" ->
           \* get_index_history(use_cache=False): client call, cache write
           IF ev = "ok" THEN Goto("hpace", r.i, r.once, {"cache"})
           ELSE IF ev = "empty" THEN Goto("hpace", r.i, r.once, {})
           ELSE Unwind(<<inner(Goto("hpace", r.i, r.once, {})),
                         LoopHandler(ExcOf(ev), r)>>, ExcOf(ev))
      [] r.pc = "hpace" ->
           \* await asyncio.sleep(0.5); after the last one history_synced = True
           IF ev = "cancel" THEN Unwind(<<LoopHandler(ExcOf(ev), r)>>, ExcOf(ev))
           ELSE IF r.i < MaxHist THEN Goto("hfetch", r.i + 1, r.once, {"fetch"})
           ELSE Goto("sleep", 0, HistorySynced, {})

\* sync_watchlist_data(user) as called for the user after r.i: outside
\* trading hours it returns at once and the loop paces
NextUser(r, trading) ==
    IF trading THEN Goto("rows", r.i + 1, FALSE, {})
    ELSE Goto("pace", r.i + 1, FALSE, {})

\* _sync_watchlist_data over get_all_watchlist_users and sync_watchlist_data
WatchlistLoop(r, ev, run, trading) ==
    LET perUser == Handler(LoopHandles(ExcOf(ev)), TRUE, Goto("pace", r.i, FALSE, {}))
    IN
    CASE r.pc \in {"new", "sleep"} ->
           LoopHead(r, ev, run, Goto("users", 0, FALSE, {}))
      [] r.pc = "users" ->
           \* get_all_watchlist_users: a failure yields ["default"]
           IF ev = "ok" THEN NextUser(r, trading)
           ELSE IF ev = "empty" THEN Goto("sleep", 0, FALSE, {})
           ELSE Unwind(<<Handler(ServiceHandles(ExcOf(ev)), FALSE, NextUser(r, trading)),
                         LoopHandler(ExcOf(ev), r)>>, ExcOf(ev))
      [] r.pc = "rows" ->
           \* watchlist = await self.watchlist_repo.get_by_user(user_id)
           IF ev = "ok" THEN Goto("fetch", r.i, FALSE, {"fetch"})
           ELSE IF ev = "empty" THEN Goto("pace", r.i, FALSE, {})
           ELSE Unwind(<<perUser, LoopHandler(ExcOf(ev), r)>>, ExcOf(ev))
      [] r.pc = "fetch" ->
           \* the realtime quotes of the user's codes
           IF ev = "ok" THEN Goto("upsert", r.i, FALSE, {"upsert"})
           ELSE IF ev = "empty" THEN Goto("pace", r.i, FALSE, {})
           ELSE Unwind(<<perUser, LoopHandler(ExcOf(ev), r)>>, ExcOf(ev))
      [] r.pc = "upsert" ->
           \* try: await save_quotes(cn_quotes) except Exception: log
           \* then the history fetches
           IF ev = "ok" THEN Goto("hfetch", r.i, FALSE, {"fetch"})
           ELSE Unwind(<<Handler(ServiceHandles(ExcOf(ev)), FALSE,
                                 Goto("hfetch", r.i, FALSE, {"fetch"})),
                         perUser, LoopHandler(ExcOf(ev), r)>>, ExcOf(ev))
      [] r.pc = "hfetch" ->
           \* a failed history fetch is skipped; the four cache writes follow
           Goto("pace", r.i, FALSE, {"cache"})
      [] r.pc = "pace" ->
           \* await asyncio.sleep(1), inside the outer try only
           IF ev = "cancel" THEN Unwind(<<LoopHandler(ExcOf(ev), r)>>, ExcOf(ev))
           ELSE IF r.i < MaxUsers THEN NextUser(r, trading)
           ELSE Goto("sleep", 0, FALSE, {})

\* _sync_etf_data over get_hot_etfs, get_etf_realtime, get_fund_ranking,
\* sync_etf_watchlist_data and sync_otc_watchlist_data
EtfLoop(r, ev, run) ==
    LET inService(to) == Handler(ServiceHandles(ExcOf(ev)), FALSE, to)
    IN
    CASE r.pc \in {"new", "sleep"} ->
           LoopHead(r, ev, run, Goto("fetch", 0, r.once, {"fetch"}))
      [] r.pc = "fetch" ->
           \* hot ETFs and, the first time, the ETF list and the fund ranking
           IF ev = "ok" THEN Goto("rows", 0, TRUE, {"cache"})
           ELSE IF ev = "empty" THEN Goto("rows", 0, TRUE, {})
           ELSE Unwind(<<LoopHandler(ExcOf(ev), r)>>, ExcOf(ev))
      [] r.pc = "rows" ->
           \* sync_etf_watchlist_data: get_by_user, inside its own try
           IF ev = "ok" THEN Goto("fetch2", 0, r.once, {"fetch"})
           ELSE IF ev = "empty" THEN Goto("rows2", 0, r.once, {})
           ELSE Unwind(<<inService(Goto("rows2", 0, r.once, {})),
                         LoopHandler(ExcOf(ev), r)>>, ExcOf(ev))
      [] r.pc = "fetch2" ->
           IF ev = "ok" THEN Goto("rows2", 0, r.once, {"cache"})
           ELSE Unwind(<<inService(Goto("rows2", 0, r.once, {})),
                         LoopHandler(ExcOf(ev), r)>>, ExcOf(ev))
      [] r.pc = "rows2" ->
           \* sync_otc_watchlist_data: get_by_user, inside its own try
           IF ev = "ok" THEN Goto("fetch3", 0, r.once, {"fetch"})
           ELSE IF ev = "empty" THEN Goto("sleep", 0, r.once, {})
           ELSE Unwind(<<inService(Goto("sleep", 0, r.once, {})),
                         LoopHandler(ExcOf(ev), r)>>, ExcOf(ev))
      [] r.pc = "fetch3" ->
           IF ev = "ok" THEN Goto("sleep", 0, r.once, {"cache"})
           ELSE Unwind(<<inService(Goto("sleep", 0, r.once, {})),
                         LoopHandler(ExcOf(ev), r)>>, ExcOf(ev))

\* the coroutine of each category
Flow(r, ev, run, trading) ==
    CASE r.cat \in SimpleCats -> SimpleLoop(r, ev, run)
      [] r.cat = "market" -> MarketLoop(r, ev, run)
      [] r.cat = "watchlist" -> WatchlistLoop(r, ev, run, trading)
      [] r.cat = "etf" -> EtfLoop(r, ev, run)

\* what a resumed task can be handed at each point.  A pending cancellation
\* is what it gets at any suspension point.  The market, gold and futures
\* clients substitute built-in records when upstream yields nothing, so
\* those fetches are never empty.
Events(r) ==
    IF r.must_cancel THEN {"cancel"}
    ELSE IF r.pc \in {"new"} \cup SleepPcs THEN {"timer"}
    ELSE IF r.pc \in AwaitPcs THEN
        IF r.pc = "upsert" THEN {"ok", "raise"} ELSE {"ok", "empty", "raise"}
    ELSE IF r.cat \in {"gold", "futures"} \/ (r.cat = "market" /\ r.pc = "fetch")
        THEN {"ok", "raise"}
    ELSE IF r.cat = "etf" /\ r.pc \in {"fetch2", "fetch3"} THEN {"ok", "raise"}
    ELSE {"ok", "empty", "raise"}

(***************************************************************************)
(* One resumption of a task by the event loop.  A task standing in a       *)
(* blocking client call holds the only thread: nothing else runs until the *)
(* call returns.  Everything up to the next suspension or blocking call    *)
(* happens in the same step.                                               *)
(***************************************************************************)
Holder(r, t) == IF r.pc \in BlockedPcs THEN t ELSE 0

Resume(t, ev, trading) ==
    LET r == task[t]
        n == Flow(r, ev, _running, trading)
    IN /\ task' = [task EXCEPT ![t] = [r EXCEPT !.pc = n.pc, !.i = n.i,
                                                 !.once = n.once, !.exit = n.exit,
                                                 !.must_cancel = FALSE,
                                                 !.hist = IF r.pc = "pace" /\ n.pc = "hfetch"
                                                          THEN @ + 1 ELSE @]]
       /\ thread' = Holder(n, t)
       /\ lateIO' = IF r.cancel_called
                    THEN lateIO \cup {<<r.cat, k>> : k \in n.io}
                    ELSE lateIO
       /\ caught' = IF n.logged THEN r.cat ELSE "none"
       /\ returned' = "none"
       /\ left' = IF n.pc = "done" THEN r.pc ELSE "none"

TaskStep(t) ==
    /\ Alive(t)
    /\ thread = Holder(task[t], t)
    /\ \E ev \in Events(task[t]), trading \in BOOLEAN : Resume(t, ev, trading)
    /\ UNCHANGED <<_running, _tasks, call, app>>

(***************************************************************************)
(* DataSyncTask.start and DataSyncTask.stop, called by caller c.           *)
(***************************************************************************)
Idle == [pc |-> "idle", waits |-> {}]

\* how many times the six loops have been spawned so far
Spawned == Cardinality({g \in 0..(MaxSpawns - 1) : task[Len(CatSeq) * g + 1].pc # "none"})

\* the call of c returns: returned notes which call it was
Returns(c, op) ==
    /\ call' = [call EXCEPT ![c] = Idle]
    /\ returned' = op
    /\ caught' = "none"
    /\ left' = "none"

\* `if self._running: return`
StartNoop(c) ==
    /\ thread = 0 /\ call[c].pc = "idle"
    /\ _running
    /\ Returns(c, "start")
    /\ UNCHANGED <<_running, _tasks, task, thread, lateIO>>

\* start() has no await: the flag, the services and the six create_task
\* calls happen in one step
StartSpawn(c) ==
    /\ thread = 0 /\ call[c].pc = "idle"
    /\ ~_running
    /\ Spawned < MaxSpawns
    /\ LET base == Len(CatSeq) * Spawned
           ids == [k \in 1..Len(CatSeq) |-> base + k]
       IN /\ _running' = TRUE
          /\ _tasks' = ids
          /\ task' = [t \in TaskIds |->
                        IF t \in base + 1 .. base + Len(CatSeq)
                        THEN NewTask(CatSeq[t - base]) ELSE task[t]]
    /\ Returns(c, "start")
    /\ UNCHANGED <<thread, lateIO>>

\* an import or a service constructor raises after `self._running = True`
StartFails(c) ==
    /\ thread = 0 /\ call[c].pc = "idle"
    /\ ~_running
    /\ _running' = TRUE
    /\ Returns(c, "start failed")
    /\ UNCHANGED <<_tasks, task, thread, lateIO>>

\* `if not self._running: return`
StopNoop(c) ==
    /\ thread = 0 /\ call[c].pc = "idle"
    /\ ~_running
    /\ Returns(c, "stop")
    /\ UNCHANGED <<_running, _tasks, task, thread, lateIO>>

Range(f) == {f[k] : k \in 1..Len(f)}

\* task.cancel() for every task of the list: no effect on a finished one
Cancelled(r) == IF r.pc = "done" THEN r
                ELSE [r EXCEPT !.must_cancel = TRUE, !.cancel_called = TRUE]

\* stop() up to its await: the flag, the cancellations, the gather
StopBegin(c) ==
    /\ thread = 0 /\ call[c].pc = "idle"
    /\ _running
    /\ _tasks # <<>>
    /\ _running' = FALSE
    /\ task' = [t \in TaskIds |-> IF t \in Range(_tasks) THEN Cancelled(task[t]) ELSE task[t]]
    /\ call' = [call EXCEPT ![c] = [pc |-> "gather", waits |-> Range(_tasks)]]
    /\ caught' = "none" /\ returned' = "none" /\ left' = "none"
    /\ UNCHANGED <<_tasks, thread, lateIO>>

\* stop() resumed when every gathered task has finished
StopEnd(c) ==
    /\ thread = 0 /\ call[c].pc = "gather"
    /\ \A t \in call[c].waits : task[t].pc = "done"
    /\ _tasks' = <<>>
    /\ Returns(c, "stop")
    /\ UNCHANGED <<_running, task, thread, lateIO>>

\* stop() with nothing left to wait for does not suspend
StopAtOnce(c) ==
    /\ thread = 0 /\ call[c].pc = "idle"
    /\ _running
    /\ \A t \in Range(_tasks) : task[t].pc = "done"
    /\ _running' = FALSE
    /\ _tasks' = <<>>
    /\ Returns(c, "stop")
    /\ UNCHANGED <<task, thread, lateIO>>

start(c) == StartNoop(c) \/ StartSpawn(c) \/ StartFails(c)

stop(c) == StopNoop(c) \/ StopBegin(c) \/ StopEnd(c) \/ StopAtOnce(c)

(***************************************************************************)
(* The asset services' get_realtime methods: StockService.                 *)
(* get_realtime_quotes, FundService.get_realtime_navs, GoldService.        *)
(* get_realtime_prices and FuturesService.get_realtime_quotes, over        *)
(* RedisCache, the provider client and TimeSeriesRepository.               *)
(***************************************************************************)
Services == {"stock", "fund", "gold", "futures"}

\* the refreshes that keep no time series: MarketService.get_market_data
\* and FundService.get_hot_etfs
Unstored == {"market", "etf"}

\* the clients whose realtime method returns built-in records when the
\* upstream gave nothing
DefaultingClients == {"gold", "futures", "market"}

Versions == 1..MaxVersions

\* datetime.now() at snapshot v, and what DateTimeEncoder.default makes of it
DateTime(v) == [type |-> "datetime", at |-> v]

isoformat(d) == [type |-> "str", at |-> d.at]

\* the code the followed batch is about
CodeOf(s) ==
    CASE s = "stock" -> "000001"
      [] s = "fund" -> "110011"
      [] s = "gold" -> "AU9999"
      [] s = "futures" -> "IF2401"
      [] s = "market" -> "SSE"
      [] s = "etf" -> "510300"

\* one record of a provider batch: where its figures come from stands for
\* the figures
Quote(s, v, origin) == [code |-> CodeOf(s), close |-> origin, time |-> DateTime(v)]

\* json.dumps(value, cls=DateTimeEncoder) followed by json.loads: a
\* datetime comes back as the string isoformat() made of it
JsonRoundTrip(list) ==
    [k \in 1..Len(list) |->
        [list[k] EXCEPT !.time = IF @.type = "datetime" THEN isoformat(@) ELSE @]]

Absent == [present |-> FALSE, value |-> <<>>]

Entry(list) == [present |-> TRUE, value |-> JsonRoundTrip(list)]

\* the snapshots the records held in the store, under the key or by a call
\* in flight were taken at
Seen ==
    LET at(list) == {list[k].time.at : k \in 1..Len(list)}
    IN {r.time.at : r \in store} \cup at(cache.value)
         \cup at(calls["tick"].data) \cup at(calls["api"].data)

\* datetime.now() at a client call: no earlier than any snapshot taken
Now == {v \in Versions : \A u \in Seen : u <= v}

\* what the upstream (akshare) does at one client call, and when
Upstream == [kind : {"ok", "empty", "raise"}, v : Now]

\* client.get_cn_stock_realtime / get_fund_realtime / get_gold_realtime /
\* get_futures_realtime: none lets an upstream exception out
ClientRealtime(s, up) ==
    IF up.kind = "ok" THEN <<Quote(s, up.v, "upstream")>>
    ELSE IF s \in DefaultingClients THEN <<Quote(s, up.v, "built-in")>>
    ELSE <<>>

\* what can go wrong in one cache operation: nothing, a RedisError, a
\* TypeError of json.dumps, or any other exception
CacheFaults == {"none", "RedisError", "TypeError", "Other"}

\* RedisCache.get: except (RedisError, json.JSONDecodeError);
\* RedisCache.set: except (RedisError, TypeError)
RedisCacheCatches(op, exc) ==
    \/ exc = "RedisError"
    \/ op = "set" /\ exc = "TypeError"

\* a BaseService wrapper without its try/except
BaseServiceCatchesNothing(exc) == FALSE

\* BaseService._get_from_cache / _set_to_cache: except Exception
BaseServiceCatches(exc) == TRUE

\* whether a fault of a cache operation reaches the service method
Propagates(op, fault) ==
    fault # "none" /\ ~RedisCacheCatches(op, fault) /\ ~BaseServiceCatches(fault)

\* BaseService._get_from_cache: the cached list, or nothing (None)
_get_from_cache(fault) ==
    IF fault = "none" /\ cache.present THEN cache.value ELSE <<>>

\* TimeSeriesRepository.save_quotes: session.merge per record, on the
\* primary key (code, time)
RECURSIVE save_quotes(_, _)
save_quotes(rows, list) ==
    LET same(a, b) == a.code = b.code /\ a.time = b.time
        merge(r) == {q \in rows : ~same(q, r)} \cup {r}
    IN IF list = <<>> THEN rows
       ELSE save_quotes(merge(Head(list)), Tail(list))

NoCall == [pc |-> "idle", use_cache |-> FALSE, data |-> <<>>, live |-> FALSE]

\* what a finished call did: who called, with which use_cache; whether it
\* raised, what it returned; whether it called the client (fetched), what
\* the upstream did then (up) and what the client returned (data); how
\* save_quotes (saved) and the cache write (set) went; whether a call with
\* use_cache=False found an entry under the key it went on to refresh (live)
NoRet == [who |-> "none", use_cache |-> FALSE, raised |-> FALSE, result |-> <<>>,
          fetched |-> FALSE, up |-> "none", data |-> <<>>,
          saved |-> "none", set |-> "none", live |-> FALSE]

\* the method returns (or raises) to who
Return(who, r) ==
    /\ ret' = [r EXCEPT !.who = who]
    /\ calls' = [calls EXCEPT ![who] = NoCall]

\* whether the batch the client returned came from the upstream
FromUpstream(data) == \A k \in 1..Len(data) : data[k].close = "upstream"

\* the method up to its first real suspension: the cache lookup, the
\* client call and, with data, the start of save_quotes
GetRealtime(who, use_cache) ==
    /\ svc \in Services
    /\ calls[who].pc = "idle"
    /\ \E gf \in (IF use_cache THEN CacheFaults \ {"TypeError"} ELSE {"none"}),
          up \in Upstream :
        LET cached == IF use_cache THEN _get_from_cache(gf) ELSE <<>>
            data == ClientRealtime(svc, up)
            live == ~use_cache /\ cache.present
            r == [NoRet EXCEPT !.use_cache = use_cache]
        IN IF use_cache /\ Propagates("get", gf)
           THEN Return(who, [r EXCEPT !.raised = TRUE])
           ELSE IF cached # <<>>
           THEN Return(who, [r EXCEPT !.result = cached])
           ELSE IF data = <<>>
           THEN Return(who, [r EXCEPT !.fetched = TRUE, !.up = "failed",
                                      !.live = live])
           ELSE /\ calls' = [calls EXCEPT ![who] =
                                [pc |-> "upsert", use_cache |-> use_cache,
                                 data |-> data, live |-> live]]
                /\ ret' = NoRet
    /\ UNCHANGED <<svc, cache, store, filled, schedVars, timedVars, extVars>>

\* the method resumed from save_quotes: the handler around it, the cache
\* write and the return, with no suspension in between
SaveQuotes(who) ==
    /\ calls[who].pc = "upsert"
    /\ \E sf \in {"none", "Exception"}, cf \in CacheFaults :
        LET c == calls[who]
            r == [NoRet EXCEPT !.use_cache = c.use_cache,
                               !.fetched = TRUE, !.data = c.data, !.live = c.live,
                               !.up = IF FromUpstream(c.data) THEN "ok" ELSE "failed",
                               !.saved = IF sf = "none" THEN "ok" ELSE "failed"]
        IN /\ store' = IF sf = "none" THEN save_quotes(store, c.data) ELSE store
           /\ IF sf # "none" /\ ~ServiceHandles(sf)
              THEN /\ Return(who, [r EXCEPT !.raised = TRUE])
                   /\ UNCHANGED <<cache, filled>>
              ELSE IF Propagates("set", cf)
              THEN /\ Return(who, [r EXCEPT !.raised = TRUE, !.set = "failed"])
                   /\ UNCHANGED <<cache, filled>>
              ELSE /\ cache' = IF cf = "none" THEN Entry(c.data) ELSE cache
                   /\ filled' = IF cf = "none" THEN [present |-> TRUE, value |-> c.data]
                                ELSE filled
                   /\ Return(who, [r EXCEPT !.result = c.data,
                                            !.set = IF cf = "none" THEN "ok" ELSE "failed"])
    /\ UNCHANGED <<svc, schedVars, timedVars, extVars>>

\* get_market_data / get_hot_etfs: the cache lookup, the client call and
\* the cache write, with no save_quotes and so no suspension
get_market_data(who, use_cache) ==
    /\ svc \in Unstored
    /\ calls[who].pc = "idle"
    /\ \E gf \in (IF use_cache THEN CacheFaults \ {"TypeError"} ELSE {"none"}),
          up \in Upstream, cf \in CacheFaults :
        LET cached == IF use_cache THEN _get_from_cache(gf) ELSE <<>>
            data == ClientRealtime(svc, up)
            live == ~use_cache /\ cache.present
            r == [NoRet EXCEPT !.use_cache = use_cache]
            f == [r EXCEPT !.fetched = TRUE, !.data = data, !.live = live,
                           !.up = IF data # <<>> /\ FromUpstream(data) THEN "ok"
                                  ELSE "failed"]
        IN IF use_cache /\ Propagates("get", gf)
           THEN /\ Return(who, [r EXCEPT !.raised = TRUE])
                /\ UNCHANGED <<cache, filled>>
           ELSE IF cached # <<>>
           THEN /\ Return(who, [r EXCEPT !.result = cached])
                /\ UNCHANGED <<cache, filled>>
           ELSE IF data = <<>>
           THEN /\ Return(who, f)
                /\ UNCHANGED <<cache, filled>>
           ELSE IF Propagates("set", cf)
           THEN /\ Return(who, [f EXCEPT !.raised = TRUE, !.set = "failed"])
                /\ UNCHANGED <<cache, filled>>
           ELSE /\ cache' = IF cf = "none" THEN Entry(data) ELSE cache
                /\ filled' = IF cf = "none" THEN [present |-> TRUE, value |-> data]
                             ELSE filled
                /\ Return(who, [f EXCEPT !.result = data,
                                         !.set = IF cf = "none" THEN "ok" ELSE "failed"])
    /\ UNCHANGED <<svc, store, schedVars, timedVars, extVars>>

\* the TTL given to setex runs out
Expire ==
    /\ cache.present
    /\ cache' = Absent
    /\ filled' = Absent
    /\ ret' = NoRet
    /\ UNCHANGED <<svc, store, calls, schedVars, timedVars, extVars>>

\* a loop with the parameter left at its default
TickUsesDefault == TRUE

\* the use_cache argument the sync loops pass
TickUseCache == FALSE

\* a refresh tick of the loop of this service
RefreshTick == GetRealtime("tick", TickUseCache)

\* a request handler calling the method
ApiGet == \E use_cache \in BOOLEAN : GetRealtime("api", use_cache)

Resumed == \E who \in {"tick", "api"} : SaveQuotes(who)

\* a tick of _sync_market_data or _sync_etf_data
MarketTick == get_market_data("tick", TickUseCache)

\* a request handler asking for the indices or the hot ETFs
MarketGet == \E use_cache \in BOOLEAN : get_market_data("api", use_cache)

ServiceInit(S) ==
    /\ svc \in S
    /\ cache = Absent
    /\ store = {}
    /\ calls = [who \in {"tick", "api"} |-> NoCall]
    /\ filled = Absent
    /\ ret = NoRet

(***************************************************************************)
(* A sync loop and the TTL of the entry it writes, over time.  The loop    *)
(* is as punctual as it can be: every fetch succeeds and takes no time and *)
(* the loop runs the moment its sleep ends.                                *)
(***************************************************************************)
\* config.CACHE_TTL_REALTIME, seconds
CACHE_TTL_REALTIME == 30

\* the interval sleeps of _sync_gold_data, _sync_fund_data and
\* _sync_futures_data, seconds
GoldInterval == 30

FundInterval == 60

FuturesInterval == 30

Interval(l) ==
    CASE l = "gold" -> GoldInterval
      [] l = "fund" -> FundInterval
      [] l = "futures" -> FuturesInterval

TimedInit(L) ==
    /\ loop \in L
    /\ now = 0
    /\ wake = 0
    /\ expires = 0
    /\ refreshed = FALSE
    /\ read = "none"

\* the loop's tick: get_realtime(use_cache=False) writes the key with
\* setex(key, CACHE_TTL_REALTIME, ...), then asyncio.sleep(interval)
TimedRefresh ==
    /\ now = wake
    /\ expires' = now + CACHE_TTL_REALTIME
    /\ wake' = now + Interval(loop)
    /\ refreshed' = TRUE
    /\ read' = "none"
    /\ UNCHANGED <<loop, now, schedVars, svcVars, extVars>>

\* time passes while the loop sleeps
Advance ==
    /\ now < wake
    /\ now + ClockStep <= MaxClock
    /\ now' = now + ClockStep
    /\ read' = "none"
    /\ UNCHANGED <<loop, wake, expires, refreshed, schedVars, svcVars, extVars>>

\* a reader looks the key up: Redis serves it until the TTL has run out
Read ==
    /\ read' = IF now < expires THEN "hit" ELSE "miss"
    /\ UNCHANGED <<loop, now, wake, expires, refreshed, schedVars, svcVars, extVars>>

(***************************************************************************)
(* The watchlists: one table per service with a unique index on            *)
(* (user_id, code) (infrastructure/db/models/*.py), read and written       *)
(* through WatchlistRepository, and the cached views the services build    *)
(* from a user's rows.  A service call runs from one await on the          *)
(* database session to the next; the cache is taken to work.               *)
(***************************************************************************)
WlServices == {"stock", "fund", "gold"}

WlUsers == {"default", "u2"}

WlCodes == {"000001"}

\* two coroutines on the event loop (two requests, or a request and a
\* sync task), each in at most one watchlist call at a time
Procs == {"c1", "c2"}

\* market of a stock watchlist row: add_to_watchlist(..., market="CN")
MarketOf(c) == "CN"

\* the views a service caches under <prefix>:<view>:<user_id> (the stock
\* service under stock:watchlist:<user_id>:<market or all>)
ViewsOf(s) ==
    CASE s = "stock" -> {"all", "CN", "HK", "US"}
      [] s = "fund" -> {"watchlist", "otc_watchlist", "etf_watchlist"}
      [] s = "gold" -> {"watchlist"}

Keys == {k \in [svc : WlServices, view : {"all", "CN", "HK", "US", "watchlist",
                                         "otc_watchlist", "etf_watchlist"},
                user : WlUsers] : k.view \in ViewsOf(k.svc)}

\* the add/remove methods of a service, named by the view they belong to
Families(s) == IF s = "stock" THEN {"all"} ELSE ViewsOf(s)

\* the rows a view shows of the codes get_by_user returned: the stock
\* service filters on item.market; FundWatchlist has no market column, so
\* getattr(item, 'market', 'OTC') is 'OTC' and getattr(item, 'market',
\* None) == 'ETF' is false for every row
Filter(s, v, codes) ==
    CASE s = "stock" /\ v # "all" -> {c \in codes : MarketOf(c) = v}
      [] s = "fund" /\ v = "etf_watchlist" -> {}
      [] OTHER -> codes

\* the views a watchlist add or remove deletes: _clear_watchlist_cache of
\* the stock service, the one _delete_from_cache of the others
Cleared(s, f) == IF s = "stock" THEN ViewsOf(s) ELSE {f}

\* the declarative constructor takes the keyword arguments of the call:
\* add_otc_to_watchlist and add_etf_to_watchlist pass market=, which
\* FundWatchlist does not have
ModelAccepts(s, f) == ~(s = "fund" /\ f \in {"otc_watchlist", "etf_watchlist"})

\* a table without the unique index
NotUnique(rows, s, u, c) == TRUE

\* Index(..., "user_id", "code", unique=True): whether a row for the pair
\* may be inserted
Unique(rows, s, u, c) ==
    \A r \in rows : ~(r.svc = s /\ r.user = u /\ r.code = c)

Matching(s, u, c) ==
    {r \in watchlist : r.svc = s /\ r.user = u /\ r.code = c}

\* WatchlistRepository.get_by_user, as the codes of the rows
get_by_user(s, u) == {r.code : r \in {q \in watchlist : q.svc = s /\ q.user = u}}

NoView == [present |-> FALSE, value |-> {}]

\* a service call in flight: kind, the method; via, the view (family) it
\* was called for; pc, the await it is suspended at; snap, the codes it
\* read; found, the id of the row it found or inserted (for a remove,
\* rowcount); existed, its SELECT found the row; trading, what
\* _should_fetch_realtime said
NoOp == [kind |-> "none", svc |-> "none", user |-> "none", via |-> "none",
         code |-> "none", pc |-> "idle", snap |-> {}, found |-> 0,
         existed |-> FALSE, trading |-> FALSE]

\* the call that returned in the last step: raised, the exception it let
\* out; result, the list a get returned; hit, it came from the cache;
\* entry, the id of the entry an add returned; conflict, its INSERT met a
\* row another call had inserted; fetched, a provider client was called;
\* saved, save_quotes was called
NoDone == [kind |-> "none", svc |-> "none", user |-> "none", via |-> "none",
           raised |-> "none", result |-> {}, hit |-> FALSE, entry |-> 0,
           existed |-> FALSE, conflict |-> FALSE, trading |-> FALSE,
           fetched |-> FALSE, saved |-> FALSE]

WlOther == <<schedVars, timedVars, agentVars, gateVars, repoVars, memVars>>

\* the view a service caches for a get_watchlist without a filter
Plain(s) == IF s = "stock" THEN "all" ELSE "watchlist"

\* the calls followed at the same time are calls of one service for one
\* user, and the services are followed one at a time: no other service
\* than s has rows, cached views or calls in flight, no other user than u
\* has calls in flight or a cached view other than the plain one
Elsewhere(s, u) ==
    \/ \E q \in Procs : inflight[q].svc \notin {"none", s}
    \/ \E q \in Procs : inflight[q].user \notin {"none", u}
    \/ \E r \in watchlist : r.svc # s
    \/ \E k \in Keys : k.svc # s /\ views[k].present
    \/ \E k \in Keys : k.user # u /\ k.view # Plain(s) /\ views[k].present

OpDone(p, d) ==
    /\ done' = d
    /\ inflight' = [inflight EXCEPT ![p] = NoOp]

Begun(o, k, s, u, f) == [o EXCEPT !.kind = k, !.svc = s, !.user = u, !.via = f]

Ended(o) == [NoDone EXCEPT !.kind = o.kind, !.svc = o.svc, !.user = o.user,
                           !.via = o.via, !.existed = o.existed,
                           !.trading = o.trading]

\* WatchlistRepository.add_to_watchlist up to session.flush: the SELECT,
\* `return existing`, the constructor
AddSelect(p, s, u, f, c) ==
    /\ inflight[p].pc = "idle"
    /\ ~Elsewhere(s, u)
    /\ serial + Cardinality({q \in Procs : inflight[q].pc = "flush"}) <= MaxRows
    /\ LET existing == Matching(s, u, c)
           o == [Begun(NoOp, "add", s, u, f) EXCEPT !.code = c]
       IN IF existing # {}
          THEN /\ inflight' = [inflight EXCEPT ![p] =
                            [o EXCEPT !.pc = "commit", !.existed = TRUE,
                                      !.found = (CHOOSE r \in existing : TRUE).id]]
               /\ done' = NoDone
          ELSE IF ~ModelAccepts(s, f)
          THEN OpDone(p, [Ended(o) EXCEPT !.raised = "TypeError"])
          ELSE /\ inflight' = [inflight EXCEPT ![p] = [o EXCEPT !.pc = "flush"]]
               /\ done' = NoDone
    /\ UNCHANGED <<watchlist, views, serial, svcVars, WlOther>>

\* session.flush of the INSERT, with the commit: the unique index lets one
\* row per (user_id, code) in and fails the other INSERT
AddFlush(p) ==
    /\ inflight[p].pc = "flush"
    /\ LET o == inflight[p]
       IN IF Unique(watchlist, o.svc, o.user, o.code)
          THEN /\ watchlist' = watchlist \cup
                       {[svc |-> o.svc, user |-> o.user, code |-> o.code, id |-> serial]}
               /\ serial' = serial + 1
               /\ inflight' = [inflight EXCEPT ![p] = [o EXCEPT !.pc = "commit", !.found = serial]]
               /\ done' = NoDone
          ELSE /\ OpDone(p, [Ended(o) EXCEPT !.raised = "IntegrityError",
                                             !.conflict = TRUE])
               /\ UNCHANGED <<watchlist, serial>>
    /\ UNCHANGED <<views, svcVars, WlOther>>

\* WatchlistRepository.remove_from_watchlist: the DELETE, with the commit
RemoveDelete(p, s, u, f, c) ==
    /\ inflight[p].pc = "idle"
    /\ ~Elsewhere(s, u)
    /\ LET gone == Matching(s, u, c)
           o == [Begun(NoOp, "remove", s, u, f) EXCEPT !.code = c]
       IN /\ watchlist' = watchlist \ gone
          /\ inflight' = [inflight EXCEPT ![p] =
                       [o EXCEPT !.pc = "commit", !.existed = gone # {},
                                 !.found = Cardinality(gone)]]
    /\ done' = NoDone
    /\ UNCHANGED <<views, serial, svcVars, WlOther>>

\* the service method resumed from the repository: it deletes the views
\* of its family and returns
Invalidate(p) ==
    /\ inflight[p].pc = "commit"
    /\ LET o == inflight[p]
       IN /\ views' = [k \in Keys |->
                         IF k.svc = o.svc /\ k.user = o.user
                              /\ k.view \in Cleared(o.svc, o.via)
                         THEN NoView ELSE views[k]]
          /\ OpDone(p, [Ended(o) EXCEPT !.entry = o.found])
    /\ UNCHANGED <<watchlist, serial, svcVars, WlOther>>

\* get_watchlist (get_otc_watchlist, get_etf_watchlist) up to the end of
\* get_by_user: the cache lookup, the rows, the early returns
GetLookup(p, s, u, v) ==
    /\ inflight[p].pc = "idle"
    /\ ~Elsewhere(s, u)
    /\ LET cached == views[[svc |-> s, view |-> v, user |-> u]]
           shown == Filter(s, v, get_by_user(s, u))
           o == Begun(NoOp, "get", s, u, v)
       IN IF cached.present /\ cached.value # {}
          THEN OpDone(p, [Ended(o) EXCEPT !.result = cached.value, !.hit = TRUE])
          ELSE IF shown = {}
          THEN OpDone(p, Ended(o))
          ELSE /\ inflight' = [inflight EXCEPT ![p] = [o EXCEPT !.pc = "build", !.snap = shown]]
               /\ done' = NoDone
    /\ UNCHANGED <<watchlist, views, serial, svcVars, WlOther>>

\* the rest of the method: the quotes, the list built from the rows it
\* read, _set_to_cache, return
GetStore(p) ==
    /\ inflight[p].pc = "build" /\ inflight[p].kind = "get"
    /\ LET o == inflight[p]
       IN /\ views' = [views EXCEPT ![[svc |-> o.svc, view |-> o.via, user |-> o.user]] =
                          [present |-> TRUE, value |-> o.snap]]
          /\ OpDone(p, [Ended(o) EXCEPT !.result = o.snap, !.fetched = TRUE])
    /\ UNCHANGED <<watchlist, serial, svcVars, WlOther>>

\* the syncs the loops call: StockService.sync_watchlist_data(user_id) for
\* every user, FundService.sync_otc_watchlist_data() and
\* sync_etf_watchlist_data() for the default user
Syncs == {[svc |-> "stock", via |-> "all", user |-> u] : u \in WlUsers}
           \cup {[svc |-> "fund", via |-> f, user |-> "default"] :
                     f \in {"otc_watchlist", "etf_watchlist"}}

NeverSkips(s, trading) == FALSE

\* `if not self._should_fetch_realtime(): return`, which only the stock
\* service's sync has
Skips(s, trading) == s = "stock" /\ ~trading

\* a sync up to the end of get_by_user: the trading-hours gate of the
\* stock service, the rows, the early returns
SyncRead(p, y, trading) ==
    /\ inflight[p].pc = "idle"
    /\ ~Elsewhere(y.svc, y.user)
    /\ LET shown == Filter(y.svc, y.via, get_by_user(y.svc, y.user))
           o == [Begun(NoOp, "sync", y.svc, y.user, y.via) EXCEPT
                     !.trading = trading]
       IN IF Skips(y.svc, trading) \/ shown = {}
          THEN OpDone(p, Ended(o))
          ELSE /\ inflight' = [inflight EXCEPT ![p] = [o EXCEPT !.pc = "build", !.snap = shown]]
               /\ done' = NoDone
    /\ UNCHANGED <<watchlist, views, serial, svcVars, WlOther>>

\* the rest of a sync: the quotes, save_quotes (stock), the cache writes
SyncStore(p) ==
    /\ inflight[p].pc = "build" /\ inflight[p].kind = "sync"
    /\ \E quotes \in BOOLEAN :
        LET o == inflight[p]
            \* datetime.now() of the snapshot: the clock does not advance here
            v == CHOOSE x \in Now : \A y \in Now : x <= y
            d == [Ended(o) EXCEPT !.fetched = TRUE]
        IN IF o.svc = "stock" /\ ~quotes
           THEN /\ OpDone(p, d)
                /\ UNCHANGED <<views, store>>
           ELSE IF o.svc = "stock"
           THEN /\ store' = save_quotes(store, <<Quote("stock", v, "upstream")>>)
                /\ views' = [k \in Keys |->
                               IF k.svc = "stock" /\ k.user = o.user
                               THEN [present |-> TRUE,
                                     value |-> Filter("stock", k.view, o.snap)]
                               ELSE views[k]]
                /\ OpDone(p, [d EXCEPT !.saved = TRUE])
           ELSE /\ views' = [views EXCEPT
                               ![[svc |-> o.svc, view |-> o.via, user |-> o.user]] =
                                   [present |-> TRUE, value |-> o.snap]]
                /\ OpDone(p, d)
                /\ UNCHANGED store
    /\ UNCHANGED <<watchlist, serial, svc, cache, calls, filled, ret, WlOther>>

\* the TTL of a cached view runs out
ViewExpire(k) ==
    /\ views[k].present
    /\ views' = [views EXCEPT ![k] = NoView]
    /\ done' = NoDone
    /\ UNCHANGED <<watchlist, inflight, serial, svcVars, WlOther>>

add_to_watchlist ==
    \E p \in Procs, s \in WlServices, u \in WlUsers, c \in WlCodes :
        \/ \E f \in Families(s) : AddSelect(p, s, u, f, c)
        \/ AddFlush(p)

remove_from_watchlist ==
    \E p \in Procs, s \in WlServices, u \in WlUsers, c \in WlCodes :
        \E f \in Families(s) : RemoveDelete(p, s, u, f, c)

_clear_watchlist_cache == \E p \in Procs : Invalidate(p)

get_watchlist ==
    \E p \in Procs :
        \/ \E s \in WlServices, u \in WlUsers : \E v \in ViewsOf(s) : GetLookup(p, s, u, v)
        \/ GetStore(p)

sync_watchlist_data ==
    \E p \in Procs :
        \/ \E y \in Syncs, trading \in BOOLEAN : SyncRead(p, y, trading)
        \/ SyncStore(p)

WatchlistInit ==
    /\ watchlist = {}
    /\ views = [k \in Keys |-> NoView]
    /\ inflight = [p \in Procs |-> NoOp]
    /\ done = NoDone
    /\ serial = 1

(***************************************************************************)
(* The investment agent: one chat() turn of the ReAct loop                 *)
(* (agent/investment_agent.py) over the conversation history kept in       *)
(* Redis (agent/memory/conversation_memory.py).  chat() is a synchronous   *)
(* function; a step of the model is one pass of its while loop.  Texts     *)
(* are told apart by kind only, and the text of a tool message is kept in  *)
(* the turn for the last tool call only.                                   *)
(***************************************************************************)
\* InvestmentAgent.max_iterations
max_iterations == 5

\* ConversationMemory.max_messages
max_messages == 20

\* the tools of the agent, and a name it does not have
ToolNames == {"get_news", "web_search", "other"}

\* tool_call.function.arguments: a JSON object, a JSON value that is not an
\* object, or text that is not JSON
Arguments == {"object", "scalar", "invalid"}

\* one tool call of an LLM response; raises: tool.run raises when run with
\* the arguments it was sent
ToolCalls == [name : ToolNames, arguments : Arguments, raises : BOOLEAN]

\* the tool calls of one LLM response
CallLists == UNION {[1..n -> ToolCalls] : n \in 1..MaxToolCalls}

\* a message: an assistant message that asks for tool calls carries their
\* ids, a tool message the id of the call it answers
Msg(role, content) ==
    [role |-> role, content |-> content, tool_calls |-> <<>>, tool_call_id |-> <<>>]

\* tool_call.id of the k-th tool call of the response of a pass
Id(iteration, k) == <<iteration, k>>

\* the assistant message appended for a response with tool calls
AssistantMessage(iteration, list) ==
    [Msg("assistant", "tool_calls") EXCEPT
        !.tool_calls = [k \in 1..Len(list) |-> Id(iteration, k)]]

\* a tool message that answers no call in particular
AnonymousToolMessage(id) == Msg("tool", "tool_result")

\* the tool message appended for one tool call
ToolMessage(id) == [Msg("tool", "tool_result") EXCEPT !.tool_call_id = id]

\* "推荐方向" in final_response or "投资" in final_response: of the texts
\* followed, the advice the LLM gives has a marker, the fixed texts of
\* chat() have none
HasMarker(text) == text = "advice"

\* final_response[:500]: the advice is the one text of more than 500
\* characters
First500(text) == IF text = "advice" THEN "advice[:500]" ELSE text

\* save_insight: another kind of entry
save_insight(recommendation) ==
    [type |-> "insight", importance |-> 2, content |-> recommendation]

\* save_recommendation: the entry add_memory is asked to insert
save_recommendation(recommendation) ==
    [type |-> "recommendation", importance |-> 3, content |-> recommendation]

\* add_memory: the row is added and committed, or the failure is logged
add_memory(rows, entry, ok) == IF ok THEN Append(rows, entry) ELSE rows

\* _execute_tool: except Exception
ToolBoundary(exc) == exc = "Exception"

\* json.loads(tool_call.function.arguments) under except JSONDecodeError:
\* the arguments the tool is run with
json_loads(arguments) == IF arguments = "invalid" THEN "empty object" ELSE arguments

\* tool.run(**arguments): NewsTool.run has a default for every parameter,
\* SearchTool.run requires query; ** of something that is not a mapping is
\* a TypeError
run(name, arguments, raises) ==
    CASE arguments = "scalar" -> "raise"
      [] arguments = "empty object" /\ name = "web_search" -> "raise"
      [] arguments = "empty object" -> "result"
      [] OTHER -> IF raises THEN "raise" ELSE "result"

\* _execute_tool(tool_name, arguments): the string it returns, or "raise"
_execute_tool(name, arguments, raises) ==
    IF name = "other" THEN "error"
    ELSE IF run(name, arguments, raises) # "raise" THEN "result"
    ELSE IF ToolBoundary("Exception") THEN "error"
    ELSE "raise"

\* why a tool call counts as failed: the name is unknown, the arguments
\* are not valid JSON, the tool raised
Failure(tc) ==
    IF tc.name = "other" THEN "unknown tool"
    ELSE IF tc.arguments = "invalid" THEN "invalid JSON"
    ELSE IF run(tc.name, json_loads(tc.arguments), tc.raises) = "raise" THEN "tool raised"
    ELSE "none"

\* what one tool call appends to messages
ToolResult(tc) == _execute_tool(tc.name, json_loads(tc.arguments), tc.raises)

\* a cut that keeps the oldest messages
FirstMessages(all) == SubSeq(all, 1, max_messages)

\* history[-self.max_messages:]
LastMessages(all) == SubSeq(all, Len(all) - max_messages + 1, Len(all))

\* ConversationMemory.add_message: read the history, append, keep the last
\* max_messages, write; fault: the Redis operation that fails, both
\* failures being swallowed (get_messages returns [] on failure)
add_message(history, m, fault) ==
    LET had == IF fault = "get" THEN <<>> ELSE history
        all == Append(had, m)
        kept == IF Len(all) > max_messages THEN LastMessages(all) ELSE all
    IN IF fault = "set" THEN history ELSE kept

\* ConversationMemory.get_messages_for_llm
get_messages_for_llm(history) ==
    SelectSeq(history, LAMBDA m : m.role \in {"user", "assistant", "system"})

\* a turn: pc, where chat() is; iteration and final_response, its locals;
\* llm_calls, the LLM calls made; failure, why the last tool call of the
\* last pass counts as failed, if it does; tool_result, the content of the
\* tool message appended for it
NoTurn == [pc |-> "idle", iteration |-> 0, final_response |-> "", llm_calls |-> 0,
           failure |-> "none", tool_result |-> "none"]

\* what chat() returned: text, the string; last, the content of the LLM
\* output of its last pass ("none" when that call raised); llm_calls, the
\* LLM calls it made; broke, how it left the loop
NoReply == [returned |-> FALSE, text |-> "", last |-> "none", llm_calls |-> 0,
            broke |-> "none", saved |-> "none"]

AgentOther == <<schedVars, svcVars, timedVars, wlVars, gateVars, repoVars, memVars>>

\* a loop that never gives up
ContinuesAlways(iteration) == TRUE

\* while iteration < self.max_iterations
Continues(iteration) == iteration < max_iterations

\* the tool messages of a message list
ToolResults(list) == SelectSeq(list, LAMBDA m : m.role = "tool")

\* chat() without a client: the fixed answer.  The client is made, or not,
\* by the constructor: an agent without one never had a turn stored
ChatUnconfigured ==
    /\ turn.pc = "idle" /\ memory = <<>>
    /\ turns < MaxTurns
    /\ turns' = turns + 1
    /\ reply' = [NoReply EXCEPT !.returned = TRUE, !.text = "unconfigured",
                                !.broke = "unconfigured"]
    /\ UNCHANGED <<memory, messages, turn, long_memory, AgentOther>>

\* chat() up to the while loop: the user message is stored, messages is
\* built from the system prompt and the stored history
ChatBegin ==
    /\ turn.pc = "idle" /\ reply.broke # "unconfigured"
    /\ turns < MaxTurns
    /\ turns' = turns + 1
    /\ memory' = add_message(memory, Msg("user", "question"), "none")
    /\ messages' = <<Msg("system", "prompt")>> \o get_messages_for_llm(memory')
    /\ turn' = [NoTurn EXCEPT !.pc = "loop"]
    /\ reply' = NoReply
    /\ UNCHANGED <<long_memory, AgentOther>>

\* the statements after the loop: the reply is stored, saved as a
\* recommendation when it has a marker (the insert succeeds, ok, or fails)
\* and returned; the locals of the call are gone
Finish(final_response, last, llm_calls, broke) ==
    /\ memory' = add_message(memory, Msg("assistant", final_response), "none")
    /\ \E ok \in (IF HasMarker(final_response) THEN BOOLEAN ELSE {FALSE}) :
        /\ long_memory' =
               IF HasMarker(final_response)
               THEN add_memory(long_memory,
                               save_recommendation(First500(final_response)), ok)
               ELSE long_memory
        /\ reply' = [returned |-> TRUE, text |-> final_response, last |-> last,
                     llm_calls |-> llm_calls, broke |-> broke,
                     saved |-> IF ~HasMarker(final_response) THEN "none"
                               ELSE IF ok THEN "ok" ELSE "failed"]
    /\ turn' = NoTurn
    /\ messages' = <<>>

\* the LLM call raises: the handler of the loop body sets the error
\* message and breaks
LlmRaises ==
    /\ turn.pc = "loop" /\ Continues(turn.iteration)
    /\ Finish("error", "none", turn.llm_calls + 1, "llm raised")
    /\ UNCHANGED <<turns, AgentOther>>

\* the LLM answers without tool calls: its content, or the apology when
\* the content is empty, is the final response
LlmAnswers ==
    /\ turn.pc = "loop" /\ Continues(turn.iteration)
    /\ \E content \in {"", "advice"} :
        Finish(IF content = "" THEN "apology" ELSE content, content,
               turn.llm_calls + 1, "answer")
    /\ UNCHANGED <<turns, AgentOther>>

\* the messages the tool calls of one response append, up to the first
\* one that raises out of _execute_tool
RECURSIVE Results(_, _)
Results(list, k) ==
    IF k > Len(list) \/ ToolResult(list[k]) = "raise" THEN <<>>
    ELSE <<ToolMessage(Id(turn.iteration + 1, k))>> \o Results(list, k + 1)

\* the LLM asks for tool calls: the assistant message and one tool message
\* per call are appended; the loop continues, or is left when the bound is
\* reached (final_response is what it was) or a tool call raised into the
\* handler of the loop body
LlmCallsTools ==
    /\ turn.pc = "loop" /\ Continues(turn.iteration)
    /\ \E content \in {"", "thought"}, list \in CallLists :
        LET out == Results(list, 1)
            escaped == Len(out) < Len(list)
            after == messages \o <<AssistantMessage(turn.iteration + 1, list)>> \o out
        IN IF escaped
           THEN Finish("error", content, turn.llm_calls + 1, "tool raised")
           ELSE IF ~Continues(turn.iteration + 1)
           THEN Finish(turn.final_response, content, turn.llm_calls + 1, "exhausted")
           ELSE /\ messages' = after
                /\ turn' = [turn EXCEPT !.iteration = @ + 1, !.llm_calls = @ + 1,
                                        !.failure = Failure(list[Len(list)]),
                                        !.tool_result = ToolResult(list[Len(list)])]
                /\ reply' = NoReply
                /\ UNCHANGED <<memory, long_memory>>
    /\ UNCHANGED <<turns, AgentOther>>

chat == ChatUnconfigured \/ ChatBegin \/ LlmRaises \/ LlmAnswers \/ LlmCallsTools

AgentInit ==
    /\ memory = <<>>
    /\ messages = <<>>
    /\ turn = NoTurn
    /\ reply = NoReply
    /\ turns = 0
    /\ long_memory = <<[type |-> "preference", importance |-> 4,
                        content |-> "risk: low"]>>

(***************************************************************************)
(* The trading-hours gate of the stock service (service/stock_service.py). *)
(***************************************************************************)
\* a datetime.time, compared as Python compares them: field by field
Time(h, m, s) == [hour |-> h, minute |-> m, second |-> s]

TimeLeq(a, b) ==
    \/ a.hour < b.hour
    \/ a.hour = b.hour /\ a.minute < b.minute
    \/ a.hour = b.hour /\ a.minute = b.minute /\ a.second <= b.second

\* TRADING_HOURS
TRADING_HOURS == <<<<Time(9, 15, 0), Time(11, 30, 0)>>, <<Time(13, 0, 0), Time(15, 0, 0)>>>>

\* a weekend that is Sunday only
SundayOnly(weekday) == weekday >= 6

\* now.weekday() >= 5
Weekend(weekday) == weekday >= 5

\* StockService._is_trading_time, of the datetime it reads
_is_trading_time(t) ==
    IF Weekend(t.weekday) THEN FALSE
    ELSE \E k \in 1..Len(TRADING_HOURS) :
            /\ TimeLeq(TRADING_HOURS[k][1], t.time)
            /\ TimeLeq(t.time, TRADING_HOURS[k][2])

\* the datetimes the gate is asked about: every minute of a week, on the
\* minute and late in it
WallClocks == [weekday : 0..6, time : [hour : 0..23, minute : 0..59, second : {0, 59}]]

GateOther == <<schedVars, svcVars, timedVars, wlVars, agentVars, repoVars, memVars>>

\* _should_fetch_realtime: the gate is asked
AskGate ==
    /\ ~gate.asked
    /\ gate' = [asked |-> TRUE, open |-> _is_trading_time(wallclock)]
    /\ UNCHANGED <<wallclock, GateOther>>

GateInit(W) ==
    /\ wallclock \in W
    /\ gate = [asked |-> FALSE, open |-> FALSE]

(***************************************************************************)
(* TimeSeriesRepository over one table: save_quote, save_quotes,           *)
(* get_latest and get_by_time_bucket.  A session is opened per call with   *)
(* autoflush off, committed when the call returns and rolled back when it  *)
(* raises.                                                                 *)
(***************************************************************************)
Times == 0..MaxTime

\* the figures a quote is made of
Figures == {1, 2}

\* a row of StockQuote: the primary key is (time, code)
Row(code, t, x) ==
    [code |-> code, time |-> t, open |-> x, high |-> x + 1, low |-> x - 1,
     close |-> 3 - x, volume |-> x]

\* the records the callers save: any figures at any time for one code, and
\* one record of a second code
Rows ==
    {Row("000001", t, x) : t \in Times, x \in Figures} \cup {Row("600000", 0, 1)}

RepoCodes == {r.code : r \in Rows}

\* the batches the callers save: one record, or two in the order of
\* their times
Batches ==
    {<<r>> : r \in Rows}
        \cup {b \in {<<r, q>> : r \in Rows, q \in Rows} : b[1].time <= b[2].time}

SameKey(a, b) == a.code = b.code /\ a.time = b.time

\* session.merge with autoflush off: a record whose key is not in the
\* table becomes a pending instance that a later merge of the same key,
\* in the same session, does not find: two INSERTs of one primary key are
\* flushed at commit, which raises IntegrityError
Conflicts(rows, list) ==
    \E j \in 1..Len(list), k \in 1..Len(list) :
        /\ j < k
        /\ SameKey(list[j], list[k])
        /\ \A r \in rows : ~SameKey(r, list[j])

\* get_latest: where code order by time desc limit 1
get_latest(rows, code) ==
    LET of == {r \in rows : r.code = code}
    IN IF of = {} THEN <<>>
       ELSE <<CHOOSE r \in of : \A q \in of : q.time <= r.time>>

\* time_bucket(interval, time)
time_bucket(width, t) == t - (t % width)

\* FIRST(col, time) takes col from this row of the group
FIRST(G) == CHOOSE r \in G : \A q \in G : r.time <= q.time

\* a LAST that is a FIRST
LAST_earliest(G) == CHOOSE r \in G : \A q \in G : r.time <= q.time

\* LAST(col, time) takes col from this row of the group
LAST(G) == CHOOSE r \in G : \A q \in G : q.time <= r.time

MAX(S) == CHOOSE x \in S : \A y \in S : y <= x

MIN(S) == CHOOSE x \in S : \A y \in S : x <= y

\* SUM(volume) over the rows of a group
RECURSIVE SUM(_)
SUM(G) ==
    IF G = {} THEN 0
    ELSE LET r == CHOOSE r \in G : TRUE IN r.volume + SUM(G \ {r})

\* get_by_time_bucket: the rows of the code between start_time and end_time,
\* grouped by bucket, one aggregate per group, ordered by bucket
get_by_time_bucket(rows, code, start_time, end_time, width) ==
    LET sel == {r \in rows : r.code = code /\ r.time >= start_time
                                           /\ r.time <= end_time}
        group(b) == {r \in sel : time_bucket(width, r.time) = b}
        agg(b) ==
            [bucket |-> b, code |-> code,
             open |-> FIRST(group(b)).open,
             high |-> MAX({r.high : r \in group(b)}),
             low |-> MIN({r.low : r \in group(b)}),
             close |-> LAST(group(b)).close,
             volume |-> SUM(group(b))]
        all == [k \in 1..(MaxTime + 1) |-> k - 1]
        nonempty(b) == group(b) # {}
        ordered == SelectSeq(all, nonempty)
    IN [k \in 1..Len(ordered) |-> agg(ordered[k])]

NoRepo == [op |-> "none", batch |-> <<>>, before |-> {}, raised |-> FALSE,
           code |-> "none", start_time |-> 0, end_time |-> 0, width |-> 1,
           result |-> <<>>]

RepoOther == <<schedVars, svcVars, timedVars, wlVars, agentVars, gateVars, memVars>>

\* one save call: every record merged in one session, then the commit
Save(op, list) ==
    /\ table' = IF Conflicts(table, list) THEN table ELSE save_quotes(table, list)
    /\ repo' = [NoRepo EXCEPT !.op = op, !.batch = list, !.before = table,
                              !.raised = Conflicts(table, list)]
    /\ UNCHANGED RepoOther

RepoSaveQuote == \E r \in Rows : Save("save_quote", <<r>>)

RepoSaveQuotes == \E list \in Batches : Save("save_quotes", list)

RepoGetByTimeBucket ==
    \E code \in RepoCodes, start_time \in Times, end_time \in Times,
       width \in 1..MaxWidth :
        /\ start_time <= end_time
        /\ repo' = [NoRepo EXCEPT
                       !.op = "get_by_time_bucket", !.code = code,
                       !.start_time = start_time, !.end_time = end_time,
                       !.width = width,
                       !.result = get_by_time_bucket(table, code, start_time,
                                                     end_time, width)]
        /\ UNCHANGED <<table, RepoOther>>

RepoInit ==
    /\ table = {}
    /\ repo = NoRepo

(***************************************************************************)
(* ConversationMemory called at will: the messages are numbered in the     *)
(* order they are added, and the Redis read or write of a call may fail.   *)
(***************************************************************************)
\* added, the add_message calls made; faults, how many met a failure;
\* fault, what failed in the last one; before, what was stored before it
NoMem == [added |-> 0, faults |-> 0, fault |-> "none", before |-> <<>>]

MemOther == <<schedVars, svcVars, timedVars, wlVars, gateVars, repoVars>>

\* the n-th message added to the session: chat() adds the user's and the
\* assistant's in turn
Nth(n) == Msg(IF n % 2 = 1 THEN "user" ELSE "assistant", n)

\* one add_message call
AddMessage ==
    /\ mem.added < MaxAdds
    /\ \E fault \in {"none", "get", "set"} :
        /\ fault # "none" => mem.faults < MaxFaults
        /\ memory' = add_message(memory, Nth(mem.added + 1), fault)
        /\ mem' = [added |-> mem.added + 1,
                   faults |-> mem.faults + (IF fault = "none" THEN 0 ELSE 1),
                   fault |-> fault, before |-> memory]
    /\ UNCHANGED <<messages, turn, reply, turns, long_memory, MemOther>>

MemInit == mem = NoMem

\* the state of the watchlists, the agent and the gate at start
ExtInit ==
    /\ WatchlistInit
    /\ AgentInit
    /\ GateInit({[weekday |-> 0, time |-> Time(0, 0, 0)]})
    /\ RepoInit
    /\ MemInit

(***************************************************************************)
(* The application: lifespan starts the scheduler once at startup and      *)
(* stops it once at shutdown.                                              *)
(***************************************************************************)
Startup ==
    /\ app = "startup"
    /\ start("lifespan")
    /\ app' = "serving"
    /\ UNCHANGED <<steps, svcVars, timedVars, extVars>>

Shutdown ==
    /\ app = "serving"
    /\ stop("lifespan")
    /\ app' = IF call'["lifespan"].pc = "idle" THEN "down" ELSE app
    /\ UNCHANGED <<steps, svcVars, timedVars, extVars>>

Tick == \E t \in TaskIds : TaskStep(t) /\ UNCHANGED <<steps, svcVars, timedVars, extVars>>

SchedulerInit ==
    /\ _running = FALSE
    /\ _tasks = <<>>
    /\ task = [t \in TaskIds |-> NoTask]
    /\ thread = 0
    /\ call = [c \in Callers |-> Idle]
    /\ app = "startup"
    /\ lateIO = {}
    /\ caught = "none"
    /\ returned = "none"
    /\ left = "none"
    /\ steps = 0

Init == SchedulerInit /\ ServiceInit({"gold"}) /\ TimedInit({"gold"}) /\ ExtInit

Next == Startup \/ Shutdown \/ Tick

Spec == Init /\ [][Next]_vars

(***************************************************************************)
(* The scheduler object under arbitrary use: any caller may call start()   *)
(* or stop() whenever the event loop runs it.  A blocking call that was    *)
(* entered always returns; other resumptions are counted.                  *)
(***************************************************************************)
ApiCall ==
    \E c \in ApiCallers : (start(c) \/ stop(c)) /\ UNCHANGED <<app, steps, svcVars, timedVars, extVars>>

\* a task that ends at this step: a cancellation is pending, or it is at
\* its loop head with the scheduler stopped
Leaving(t) == task[t].must_cancel \/ (task[t].pc \in {"new", "sleep"} /\ ~_running)

\* the event loop runs what is ready in FIFO order: stop() cancels the
\* tasks in list order, so their wake-ups run in that order
ApiTick ==
    \E t \in TaskIds :
        /\ TaskStep(t)
        /\ Leaving(t) => \A u \in 1..(t - 1) : ~(Alive(u) /\ Leaving(u))
        /\ IF Leaving(t) \/ task[t].pc \in BlockedPcs
           THEN UNCHANGED steps
           ELSE steps < MaxApiSteps /\ steps' = steps + 1
        /\ UNCHANGED <<svcVars, timedVars, extVars>>

ApiNext == ApiCall \/ ApiTick

ApiSpec == Init /\ [][ApiNext]_vars

(***************************************************************************)
(* The scheduler stopped and started again by one caller, the market loop  *)
(* followed through its ticks and its warm-up; the other loops run only    *)
(* to leave.                                                               *)
(***************************************************************************)
RestartCall ==
    (start("a") \/ stop("a")) /\ UNCHANGED <<app, steps, svcVars, timedVars, extVars>>

RestartTick ==
    \E t \in TaskIds :
        /\ TaskStep(t)
        /\ task[t].cat = "market" \/ Leaving(t)
        /\ Leaving(t) => \A u \in 1..(t - 1) : ~(Alive(u) /\ Leaving(u))
        /\ UNCHANGED <<steps, svcVars, timedVars, extVars>>

RestartNext == RestartCall \/ RestartTick

RestartSpec == Init /\ [][RestartNext]_vars

(***************************************************************************)
(* One asset service used by its sync loop and by request handlers, with   *)
(* upstream, store and cache failing at will.                              *)
(***************************************************************************)
SvcInit == SchedulerInit /\ ServiceInit(Services) /\ TimedInit({"gold"}) /\ ExtInit

SvcNext == RefreshTick \/ ApiGet \/ Resumed \/ Expire

SvcSpec == SvcInit /\ [][SvcNext]_vars

(***************************************************************************)
(* Every refresh the scheduler performs: the four stored asset classes,    *)
(* the market indices and the hot ETFs.                                    *)
(***************************************************************************)
RefreshInit ==
    /\ SchedulerInit /\ ServiceInit(Services \cup Unstored)
    /\ TimedInit({"gold"}) /\ ExtInit

RefreshNext == SvcNext \/ MarketTick \/ MarketGet

RefreshSpec == RefreshInit /\ [][RefreshNext]_vars

(***************************************************************************)
(* The repository called at will.                                          *)
(***************************************************************************)
RepoNext == RepoSaveQuote \/ RepoSaveQuotes \/ RepoGetByTimeBucket

RepoSpec == Init /\ [][RepoNext]_vars

(***************************************************************************)
(* The conversation memory of one session.                                 *)
(***************************************************************************)
MemNext == AddMessage

MemSpec == Init /\ [][MemNext]_vars

(***************************************************************************)
(* One of the three single-key loops against the clock.                    *)
(***************************************************************************)
TimedLoops == {"gold", "fund", "futures"}

TimedSpecInit == SchedulerInit /\ ServiceInit({"gold"}) /\ TimedInit(TimedLoops) /\ ExtInit

TimedNext == TimedRefresh \/ Advance \/ Read

TimedSpec == TimedSpecInit /\ [][TimedNext]_vars

(***************************************************************************)
(* The watchlists under arbitrary service calls.                           *)
(***************************************************************************)
WlInit == SchedulerInit /\ ServiceInit({"stock"}) /\ TimedInit({"gold"}) /\ ExtInit

WlNext ==
    \/ add_to_watchlist
    \/ remove_from_watchlist
    \/ _clear_watchlist_cache
    \/ get_watchlist
    \/ sync_watchlist_data
    \/ \E k \in Keys : ViewExpire(k)

WlSpec == WlInit /\ [][WlNext]_vars

(***************************************************************************)
(* One conversation with the agent.                                        *)
(***************************************************************************)
AgentSpecInit == SchedulerInit /\ ServiceInit({"gold"}) /\ TimedInit({"gold"}) /\ ExtInit

AgentSpec == AgentSpecInit /\ [][chat]_vars

(***************************************************************************)
(* The gate asked at any time of the week.                                 *)
(***************************************************************************)
GateSpecInit ==
    /\ SchedulerInit /\ ServiceInit({"gold"}) /\ TimedInit({"gold"})
    /\ WatchlistInit /\ AgentInit /\ GateInit(WallClocks)
    /\ RepoInit /\ MemInit

GateSpec == GateSpecInit /\ [][AskGate]_vars

(***************************************************************************)
(* Properties of the scheduler.                                            *)
(***************************************************************************)
TaskOf(c) == {t \in TaskIds : task[t].cat = c}

\* C1: an exception raised by a refresh never ends a loop: no task ends
\* with an exception, and while the scheduler is running every loop that
\* start() spawned is still alive, whatever the other loops' refreshes raised.
C1_RaisingRefreshEndsNoLoop ==
    \A t \in TaskIds :
        /\ task[t].exit # "exception"
        /\ (_running /\ t \in Range(_tasks)) => Alive(t)

\* the gold loop has just logged an exception of its refresh; all six loops
\* are alive, the market loop has been through a whole tick and the fund
\* loop is in the middle of one
C1_Witness ==
    /\ caught = "gold" /\ _running
    /\ \A t \in Range(_tasks) : Alive(t)
    /\ \E t \in TaskOf("market") : task[t].once
    /\ \E t \in TaskOf("fund") : task[t].pc = "upsert"

\* C2: while one loop is inside a provider fetch that has not returned,
\* every other loop that is alive can be resumed.
C2_FetchBlocksNoOtherLoop ==
    \A t, u \in TaskIds :
        (task[t].pc \in BlockedPcs /\ u # t /\ Alive(u)) => ENABLED TaskStep(u)

\* the gold loop is inside its provider fetch while the futures loop has
\* not run yet
C2_Witness ==
    /\ \E t \in TaskOf("gold") : task[t].pc = "fetch" /\ thread = t
    /\ \E u \in TaskOf("futures") : task[u].pc = "new"

\* C3: when a stop() call has returned, no sync loop is alive.
C3_StopReturnsAfterAllLoopsEnded ==
    returned = "stop" => \A t \in TaskIds : ~Alive(t)

\* a stop() that cancelled six loops has returned
C3_Witness ==
    /\ returned = "stop"
    /\ \E t \in TaskIds : task[t].exit = "cancelled"

\* C4: a loop on which task.cancel() was called issues no provider fetch,
\* store upsert or cache write afterwards.
C4_NoIOAfterCancel == lateIO = {}

\* a loop has just ended by a cancellation delivered at a pacing sleep or
\* at the await of the store upsert inside a refresh
C4_Witness ==
    /\ left \in {"pace", "hpace", "upsert"}
    /\ \E t \in TaskIds : task[t].exit = "cancelled"
    /\ lateIO = {}


(***************************************************************************)
(* Properties of the services.                                             *)
(***************************************************************************)
Returned == ret.who # "none"

\* C5: a refresh tick passes use_cache=False; a call with use_cache=False
\* always calls the provider client, also when the key has a live entry,
\* and, when the client returned a non-empty list and the cache write went
\* through, the key then holds that list (as JSON).
C5_ForcedRefreshRefillsCache ==
    /\ ret.who = "tick" => ~ret.use_cache
    /\ (Returned /\ ~ret.use_cache) =>
          /\ ret.fetched
          /\ (ret.data # <<>> /\ ret.set = "ok") => cache = Entry(ret.data)

\* C5 as stated: after a call with use_cache=False whose client call
\* returned a non-empty list, the key holds that list.
C5_AsStated ==
    /\ ret.who = "tick" => ~ret.use_cache
    /\ (Returned /\ ~ret.use_cache) =>
          /\ ret.fetched
          /\ ret.data # <<>> => cache = Entry(ret.data)

\* a tick found a live entry under the key, called the client all the same
\* and replaced the entry by the newer list
C5_Witness ==
    /\ ret.who = "tick" /\ ret.live /\ ret.fetched
    /\ ret.set = "ok" /\ ret.data # <<>>
    /\ cache = Entry(ret.data)
    /\ \E r \in store : r.time.at < ret.data[1].time.at

\* C7: a call whose upstream fetch failed does not raise, and returns the
\* empty list, or the list the cache held, or records the store held.
C7_ProviderFailureDegrades ==
    [][(ret'.who # "none" /\ ret'.fetched /\ ret'.up = "failed") =>
          /\ ~ret'.raised
          /\ \/ ret'.result = <<>>
             \/ cache.present /\ ret'.result = cache.value
             \/ \A k \in 1..Len(ret'.result) : ret'.result[k] \in store]_vars

\* the stock service's upstream failed and the call returned the empty list
C7_Witness ==
    /\ svc = "stock" /\ Returned /\ ret.fetched /\ ret.up = "failed"
    /\ ~ret.raised /\ ret.result = <<>>

C9_StoreFailureKeepsRefresh ==
    (Returned /\ ret.saved = "failed") =>
        /\ ~ret.raised
        /\ ret.result = ret.data /\ ret.data # <<>>
        /\ ret.set # "none"
        /\ ret.set = "ok" => cache = Entry(ret.data)

\* C9 as stated: after a call whose save_quotes failed the key holds the
\* fetched list.
C9_AsStated ==
    (Returned /\ ret.saved = "failed") =>
        /\ ~ret.raised
        /\ ret.result = ret.data /\ ret.data # <<>>
        /\ cache = Entry(ret.data)

\* save_quotes failed, no row was stored, the key holds the fetched list
\* and the call returned it
C9_Witness ==
    /\ Returned /\ ret.saved = "failed" /\ ret.set = "ok"
    /\ store = {}
    /\ cache = Entry(ret.data) /\ ret.result = ret.data /\ ret.data # <<>>

\* C10: after a call that fetched a non-empty list the key holds exactly
\* that list, and until the entry expires a call with use_cache=True
\* returns that list without calling the client.
C10_CachedListIsIdentical ==
    [][/\ (ret'.who # "none" /\ ret'.use_cache /\ ret'.fetched /\ ret'.data # <<>>) =>
             cache'.present /\ cache'.value = ret'.data
       /\ (ret'.who # "none" /\ ret'.use_cache /\ filled.present) =>
             ~ret'.fetched /\ ret'.result = filled.value]_vars

\* a call with use_cache=True returned the entry another call had filled
\* the key with
C10_Witness ==
    /\ Returned /\ ret.use_cache /\ ~ret.fetched /\ ret.result # <<>>
    /\ filled.present /\ cache = Entry(filled.value)


(***************************************************************************)
(* Properties of the loops over time.                                      *)
(***************************************************************************)
\* C6: once the loop has refreshed its key, the entry is overwritten
\* before it expires: at no time is the key without a live entry, and no
\* reader misses.
C6_EntryNeverExpiresBetweenTicks ==
    refreshed => (now < expires /\ read # "miss")

\* the fund loop has refreshed its key and the entry is 25 seconds old
C6_Witness ==
    /\ loop = "fund" /\ refreshed
    /\ now + ClockStep = expires
    /\ read = "hit"

(***************************************************************************)
(* The watchlists: properties                                              *)
(***************************************************************************)

\* a watchlist add or remove of service s for user u is in flight
Mutating(s, u) ==
    \E p \in Procs : /\ inflight[p].kind \in {"add", "remove"}
                     /\ inflight[p].svc = s /\ inflight[p].user = u

\* C11: in every reachable state, whatever adds and removes ran and however
\* they interleaved, a watchlist table holds at most one row per
\* (user_id, code)
C11_Theorem ==
    \A r1 \in watchlist : \A r2 \in watchlist :
        (r1.svc = r2.svc /\ r1.user = r2.user /\ r1.code = r2.code) => r1 = r2

\* two adds of the same (user, code) ran at the same time: one INSERT went
\* in, the other add has just come back from its own INSERT
C11_Witness ==
    /\ done.kind = "add" /\ done.conflict
    /\ Cardinality(Matching(done.svc, done.user, "000001")) = 1

\* C12: an add for a (user, code) that is already in the watchlist, or that
\* another call is adding at the same time, returns the existing entry and
\* raises nothing
C12_Claim ==
    (done.kind = "add" /\ (done.existed \/ done.conflict)) =>
        /\ done.raised = "none"
        /\ \E r \in Matching(done.svc, done.user, "000001") : r.id = done.entry

\* the sequential case: the SELECT found the row and the add returned it
C12_Witness ==
    /\ done.kind = "add" /\ done.existed /\ done.raised = "none"
    /\ \E r \in Matching(done.svc, done.user, "000001") : r.id = done.entry

\* C13: with no add or remove of the user in flight, a get_watchlist of the
\* stock or gold service that is answered from the cache returns the view
\* of the rows the table holds now, never one built from rows read before
\* a mutation that has returned
C13_Claim ==
    (/\ done.kind = "get" /\ done.hit
     /\ done.svc \in {"stock", "gold"}
     /\ ~Mutating(done.svc, done.user)) =>
        done.result = Filter(done.svc, done.via, get_by_user(done.svc, done.user))

\* a cache hit that does show the rows of the table
C13_Witness ==
    /\ done.kind = "get" /\ done.hit /\ done.svc \in {"stock", "gold"}
    /\ ~Mutating(done.svc, done.user)
    /\ done.result = Filter(done.svc, done.via, get_by_user(done.svc, done.user))

\* C14: an add or remove that returns leaves no cached view of its service
\* for its user, and leaves every key of another user or service as it was
C14_Claim ==
    [][(done'.kind \in {"add", "remove"} /\ done'.raised = "none") =>
          \A k \in Keys :
              views'[k] = IF k.svc = done'.svc /\ k.user = done'.user
                          THEN NoView ELSE views[k]]_vars

\* a stock remove has returned while the other user's view stays cached,
\* and none of the four views of its own user is left
C14_Witness ==
    /\ done.kind = "remove" /\ done.svc = "stock" /\ done.existed
    /\ \A k \in Keys : k.user = done.user => ~views[k].present
    /\ \E k \in Keys : k.user # done.user /\ views[k].present

\* C16: a sync_watchlist_data of the stock service outside trading hours
\* calls no provider, saves nothing and leaves every cached view, every
\* watchlist row and every time-series row as it was
C16_Theorem ==
    [][(done'.kind = "sync" /\ done'.svc = "stock" /\ ~done'.trading) =>
          /\ ~done'.fetched /\ ~done'.saved
          /\ views' = views /\ store' = store /\ watchlist' = watchlist
          /\ cache' = cache]_vars

\* the sync has just returned outside trading hours, for a user with rows
\* and a cached view
C16_Witness ==
    /\ done.kind = "sync" /\ done.svc = "stock" /\ ~done.trading
    /\ get_by_user("stock", done.user) # {}
    /\ \E k \in Keys : k.svc = "stock" /\ k.user = done.user /\ views[k].present

(***************************************************************************)
(* The agent loop: properties                                              *)
(***************************************************************************)

\* the strings chat() returns, by kind
Replies == {"unconfigured", "error", "apology", "advice", ""}

\* C17: whatever the LLM answers (tool calls, content, exceptions), a turn
\* makes at most max_iterations LLM calls, every pass of the loop either
\* ends the turn or uses up one iteration of the max_iterations it has, and
\* what chat() returns is a string
C17_Theorem ==
    /\ [](/\ turn.llm_calls <= max_iterations
          /\ turn.pc = "loop" => turn.iteration < max_iterations
          /\ reply.returned => (reply.llm_calls <= max_iterations /\ reply.text \in Replies))
    /\ [][turn.pc = "loop" =>
              \/ reply'.returned /\ turn'.pc = "idle"
              \/ turn'.pc = "loop" /\ turn'.iteration = turn.iteration + 1]_vars

\* a turn in which the LLM asked for tools in every pass has returned
\* after max_iterations LLM calls
C17_Witness ==
    reply.returned /\ reply.broke = "exhausted" /\ reply.llm_calls = max_iterations

\* C18: when the LLM asked for tool calls in every one of the
\* max_iterations passes, chat() returns the content of the last LLM output
\* and stores that text as the assistant turn
C18_Claim ==
    reply.broke = "exhausted" =>
        /\ reply.text = reply.last
        /\ Len(memory) > 0 /\ memory[Len(memory)] = Msg("assistant", reply.last)

\* the exhausted turn whose last LLM output had no content: the empty
\* string is returned and stored
C18_Witness ==
    /\ reply.broke = "exhausted" /\ reply.last = "" /\ reply.text = ""
    /\ memory[Len(memory)] = Msg("assistant", "")

\* C19: a tool call that failed (the tool raised, the name is unknown, the
\* arguments are not valid JSON) left an error string as the last tool
\* result, and the loop is about to call the LLM again
C19_Claim ==
    turn.failure # "none" =>
        /\ turn.pc = "loop"
        /\ messages[Len(messages)].role = "tool" /\ turn.tool_result = "error"

\* the tool raised, or its name was unknown: the error string was appended
\* and the loop goes on
C19_Witness ==
    /\ turn.failure \in {"tool raised", "unknown tool"}
    /\ turn.pc = "loop"
    /\ messages[Len(messages)].role = "tool" /\ turn.tool_result = "error"

\* C20: when an LLM call raises, chat() returns the error message, the
\* stored history keeps every turn it had, and the tool results the turn
\* had obtained are appended to it together with the reply
C20_Claim ==
    [][reply'.broke = "llm raised" =>
          /\ reply'.returned /\ reply'.text = "error"
          /\ memory' = memory \o ToolResults(messages)
                              \o <<Msg("assistant", "error")>>]_vars

\* the first LLM call of a later turn raised: the stored turns are kept,
\* and the user message and the error reply were appended
C20_Witness ==
    /\ reply.broke = "llm raised" /\ reply.llm_calls = 1 /\ turns = 2
    /\ Len(memory) = 4
    /\ memory[3] = Msg("user", "question")
    /\ memory[4] = Msg("assistant", "error")

(***************************************************************************)
(* The trading-hours gate: properties                                      *)
(***************************************************************************)

\* seconds since midnight
SecondOfDay(t) == 3600 * t.hour + 60 * t.minute + t.second

\* C15: the gate is open exactly on Monday to Friday between 09:15:00 and
\* 11:30:00 or between 13:00:00 and 15:00:00: closed at every time of
\* Saturday and Sunday, closed at 12:00 on a weekday, open at 10:00 and at
\* 14:00 on a weekday
C15_Theorem ==
    gate.asked =>
        /\ gate.open <=>
               /\ wallclock.weekday \in 0..4
               /\ \/ SecondOfDay(wallclock.time) \in 33300..41400
                  \/ SecondOfDay(wallclock.time) \in 46800..54000
        /\ wallclock.weekday \in {5, 6} => ~gate.open
        /\ (wallclock.weekday \in 0..4 /\ wallclock.time = Time(12, 0, 0)) => ~gate.open
        /\ (wallclock.weekday \in 0..4 /\ wallclock.time \in {Time(10, 0, 0), Time(14, 0, 0)})
               => gate.open

\* the gate was asked at 10:00 on a Saturday and said no
C15_Witness ==
    /\ gate.asked /\ ~gate.open
    /\ wallclock.weekday = 5 /\ wallclock.time = Time(10, 0, 0)

(***************************************************************************)
(* The scheduler's life cycle: properties                                  *)
(***************************************************************************)
\* the warm-up passes begun since the process started
Warmups(T) ==
    LET RECURSIVE Sum(_)
        Sum(S) == IF S = {} THEN 0
                  ELSE LET t == CHOOSE x \in S : TRUE
                       IN task[t].hist + Sum(S \ {t})
    IN Sum(T)

Runs(t) == Alive(t) /\ ~task[t].cancel_called

\* C28: however start() and stop() interleave, every loop that runs is
\* referenced by _tasks and no two loops of one category run
C28_Claim ==
    /\ \A t \in TaskIds : Runs(t) => t \in Range(_tasks)
    /\ \A t \in TaskIds : \A u \in TaskIds :
           (Runs(t) /\ Runs(u) /\ task[t].cat = task[u].cat) => t = u

\* a start() issued on a stopped scheduler whose loops have all ended: the
\* six new loops are in _tasks, one per category
C28_Witness ==
    /\ returned = "start" /\ Spawned = 2
    /\ \A c \in Callers : call[c].pc = "idle"
    /\ \A t \in TaskIds : task[t].cancel_called => task[t].pc = "done"
    /\ Cardinality({t \in TaskIds : Runs(t)}) = Len(CatSeq)
    /\ \A t \in TaskIds : Runs(t) <=> t \in Range(_tasks)

\* C29: with no start() or stop() in progress, _running is true exactly
\* when the six loops have been spawned and are the tasks of _tasks
C29_Claim ==
    (\A c \in Callers : call[c].pc = "idle") =>
        (_running <=> (/\ Len(_tasks) = Len(CatSeq)
                       /\ \A k \in 1..Len(_tasks) : task[_tasks[k]].cat = CatSeq[k]))

\* start() has returned after spawning the six loops
C29_Witness ==
    /\ returned = "start" /\ _running /\ Len(_tasks) = Len(CatSeq)
    /\ \A k \in 1..Len(_tasks) : task[_tasks[k]].cat = CatSeq[k]

(***************************************************************************)
(* Upsert before cache refill, and upstream failures at a refresh tick.    *)
(***************************************************************************)
\* C24: whenever a call has written the cache entry from a fetched batch,
\* the time-series upsert of that batch was attempted first (it succeeded
\* or failed, but was not left out), in every refresh the scheduler makes.
C24_Claim == ret.set = "ok" => ret.saved \in {"ok", "failed"}

\* a stock tick that attempted the upsert and then refilled the entry
C24_Witness ==
    /\ svc = "stock" /\ ret.who = "tick" /\ ret.set = "ok"
    /\ ret.saved \in {"ok", "failed"}
    /\ filled.present /\ filled.value = ret.data

\* C27: a refresh tick whose upstream fetch failed leaves the cache entry
\* already stored under its key as it was: neither deleted nor overwritten.
C27_Claim ==
    [][ret'.who = "tick" /\ ret'.fetched /\ ret'.up = "failed" /\ cache.present
          => cache' = cache]_vars

\* a stock tick whose fetch failed while an entry was stored, which is
\* still there
C27_Witness ==
    /\ svc = "stock" /\ ret.who = "tick" /\ ret.fetched /\ ret.up = "failed"
    /\ ret.live /\ cache.present /\ FromUpstream(filled.value)

(***************************************************************************)
(* The time-series repository: upsert and bucket aggregates.               *)
(***************************************************************************)
Saves == {"save_quote", "save_quotes"}

Saved == {repo.batch[k] : k \in 1..Len(repo.batch)}

\* the record was saved before this call, or is in its batch twice
Twice(r) ==
    \/ r \in repo.before
    \/ \E j \in 1..Len(repo.batch), k \in 1..Len(repo.batch) :
           j < k /\ repo.batch[j] = r /\ repo.batch[k] = r

\* the table after the first save of r
AfterFirst(r) ==
    IF r \in repo.before THEN repo.before
    ELSE {q \in repo.before : ~SameKey(q, r)} \cup {r}

\* C22: after a save in which a record r was saved for the second time
\* (it was in the table already, or it is in the batch twice), the table
\* holds exactly one row for (r.code, r.time), and, when nothing but r was
\* saved, latest(r.code) is what it was after the first save.
C22_Claim ==
    repo.op \in Saves =>
        \A r \in Saved :
            Twice(r) =>
                /\ Cardinality({q \in table : SameKey(q, r)}) = 1
                /\ Saved = {r} =>
                       get_latest(table, r.code) = get_latest(AfterFirst(r), r.code)

\* a record saved again by a later call: one row, the table as it was
C22_Witness ==
    /\ repo.op = "save_quote" /\ ~repo.raised
    /\ \E r \in Saved :
           /\ r \in repo.before
           /\ get_latest(repo.before, r.code) # <<r>>
           /\ Cardinality({q \in table : SameKey(q, r)}) = 1
           /\ table = repo.before

\* the rows of the queried code and range in the bucket interval [b, b + width)
InBucket(b) ==
    {r \in table : /\ r.code = repo.code
                   /\ r.time >= repo.start_time /\ r.time <= repo.end_time
                   /\ b <= r.time /\ r.time < b + repo.width}

\* the volume the table holds for the queried code at time t, if in range
VolumeAt(b, t) ==
    LET at == {r \in InBucket(b) : r.time = t}
    IN IF at = {} THEN 0 ELSE (CHOOSE r \in at : TRUE).volume

RECURSIVE VolumeOver(_, _, _)
VolumeOver(b, from, to) ==
    IF from > to THEN 0 ELSE VolumeAt(b, from) + VolumeOver(b, from + 1, to)

\* C23: every aggregate get_by_time_bucket returns is over a non-empty
\* bucket interval aligned to the width; its open is the open of the
\* earliest record in the interval, its close the close of the latest, its
\* high the maximum high, its low the minimum low and its volume the sum of
\* the volumes; there is one aggregate per non-empty bucket, in bucket order.
C23_Theorem ==
    repo.op = "get_by_time_bucket" =>
        /\ \A k \in 1..Len(repo.result) :
            LET a == repo.result[k]
                G == InBucket(a.bucket)
            IN /\ a.bucket % repo.width = 0
               /\ G # {}
               /\ \E r \in G : a.open = r.open /\ \A q \in G : r.time <= q.time
               /\ \E r \in G : a.close = r.close /\ \A q \in G : q.time <= r.time
               /\ \E r \in G : a.high = r.high /\ \A q \in G : q.high <= a.high
               /\ \E r \in G : a.low = r.low /\ \A q \in G : a.low <= q.low
               /\ a.volume = VolumeOver(a.bucket, a.bucket, a.bucket + repo.width - 1)
        /\ \A j \in 1..Len(repo.result), k \in 1..Len(repo.result) :
               j < k => repo.result[j].bucket < repo.result[k].bucket
        /\ \A r \in table :
               r.code = repo.code /\ r.time >= repo.start_time
                                  /\ r.time <= repo.end_time
                   => \E k \in 1..Len(repo.result) : r \in InBucket(repo.result[k].bucket)

\* a query that returned a bucket of two records whose opens, closes and
\* highs differ
C23_Witness ==
    /\ repo.op = "get_by_time_bucket" /\ repo.width = 2
    /\ \E k \in 1..Len(repo.result) :
           LET G == InBucket(repo.result[k].bucket)
           IN /\ Cardinality(G) = 2
              /\ \E r \in G, q \in G :
                     r.time < q.time /\ r.open # q.open
                       /\ repo.result[k].open = r.open
                       /\ repo.result[k].close = q.close
                       /\ repo.result[k].volume = r.volume + q.volume

(***************************************************************************)
(* The conversation memory.                                                *)
(***************************************************************************)
\* the numbers of the stored messages, in stored order
Stored == [k \in 1..Len(memory) |-> memory[k].content]

\* the last n of the messages added so far
NewestOf(n) == [k \in 1..n |-> mem.added - n + k]

Min(a, b) == IF a <= b THEN a ELSE b

\* C21: the stored conversation never has more than max_messages
\* messages and keeps them in the order they were added; after a call whose
\* Redis write succeeded it ends with the message just added, and after a
\* call whose read and write both succeeded it is what was stored before
\* with the new message appended, cut from the front to max_messages; while
\* no call has met a failure it is the newest messages of all those added.
C21_Theorem ==
    /\ Len(memory) <= max_messages
    /\ \A j \in 1..Len(memory), k \in 1..Len(memory) : j < k => Stored[j] < Stored[k]
    /\ mem.added > 0 /\ mem.fault # "set" =>
           memory # <<>> /\ Stored[Len(memory)] = mem.added
    /\ mem.added > 0 /\ mem.fault = "none" =>
           LET all == Append(mem.before, Nth(mem.added))
               n == Min(Len(all), max_messages)
           IN memory = [k \in 1..n |-> all[Len(all) - n + k]]
    /\ mem.faults = 0 => Stored = NewestOf(Min(mem.added, max_messages))

\* C21 as stated: after any sequence of add_message calls the stored
\* conversation has at most max_messages messages, is a suffix of all the
\* messages added, and contains the one added last.
C21_AsStated ==
    /\ Len(memory) <= max_messages
    /\ Stored = NewestOf(Len(memory))
    /\ mem.added > 0 => memory # <<>> /\ Stored[Len(memory)] = mem.added

\* more than max_messages added without a failure: the oldest are gone,
\* the newest is there
C21_Witness ==
    /\ mem.added > max_messages /\ mem.faults = 0
    /\ Len(memory) = max_messages
    /\ Stored[1] = mem.added - max_messages + 1
    /\ Stored[max_messages] = mem.added

(***************************************************************************)
(* The long-term memory and the tool messages of a chat() turn.            *)
(***************************************************************************)
\* the texts that contain a marker keyword
Advises(text) == text = "advice"

\* the first 500 characters of a text
Truncated(text) == IF text = "advice" THEN "advice[:500]" ELSE text

\* the rows the long-term memory held are still there, in place
Kept == 
    /\ Len(long_memory') >= Len(long_memory)
    /\ \A k \in 1..Len(long_memory) : long_memory'[k] = long_memory[k]

\* one row more: a recommendation of importance 3 with the given content
AppendedOne(content) ==
    /\ Len(long_memory') = Len(long_memory) + 1
    /\ long_memory'[Len(long_memory')] =
           [type |-> "recommendation", importance |-> 3, content |-> content]

\* C26: a chat() turn whose final answer has a marker keyword, and whose
\* insert into agent_memories succeeds, appends exactly one recommendation
\* of importance 3 holding the first 500 characters of the answer; every
\* other turn appends nothing; no step changes or removes a row.
C26_Theorem ==
    [][/\ Kept
       /\ reply'.returned =>
              IF Advises(reply'.text) /\ reply'.saved = "ok"
              THEN AppendedOne(Truncated(reply'.text))
              ELSE long_memory' = long_memory]_vars

\* C26 as stated: every chat() turn whose final answer has a marker
\* keyword appends the recommendation, every other turn appends nothing.
C26_AsStated ==
    [][reply'.returned =>
           IF Advises(reply'.text)
           THEN AppendedOne(Truncated(reply'.text))
           ELSE long_memory' = long_memory]_vars

\* a turn that answered with advice, saved cut to 500 characters
\* after the row that was there before
C26_Witness ==
    /\ reply.returned /\ reply.text = "advice" /\ reply.saved = "ok"
    /\ Len(long_memory) = 2
    /\ long_memory[1].type = "preference"
    /\ long_memory[2] = [type |-> "recommendation", importance |-> 3,
                         content |-> "advice[:500]"]

\* an assistant message that asks for tool calls
Asks(m) == m.role = "assistant" /\ m.tool_calls # <<>>

====
